---------------------------- MODULE Spec2Model ----------------------------
(***************************************************************************)
(* Model of the upstream-rate-governed request gateway of NyayMitra:       *)
(*   - RateLimiter            (src/backend/agents/rate_limiter.py)         *)
(*   - ServerlessRateLimiter  (src/api/agents/rate_limiter.py)             *)
(*   - BatchProcessor / GeminiAPIOptimizer batch analysis                  *)
(*                            (src/backend/agents/api_optimizer.py)        *)
(*   - RateLimitedQueue and GeminiAPIOptimizer._retry_with_backoff         *)
(*                            (src/backend/agents/api_optimizer.py)        *)
(*   - IntelligentRateLimitRecovery                                        *)
(*                            (src/backend/agents/rate_limit_recovery.py)  *)
(*                                                                         *)
(* Time is counted in whole seconds.  Sleeps shorter than a second (the    *)
(* 0.5 s pacing sleep and the +-0.5 s jitter of RateLimiter) take no whole *)
(* second by themselves; the clock moves by Tick and by sleepers waking.   *)
(* A block of code run under `with self.lock` is one step unless it sleeps *)
(* while holding the lock, in which case the lock is held across steps.    *)
(* Code that runs without the lock is one step per statement that reads or *)
(* writes shared state.  RateLimitedQueue.execute_request holds its lock    *)
(* from its first statement to its last, so one call of it is one step,    *)
(* which moves the clock by the sleeps it makes; a sleep of a fractional    *)
(* length takes its whole seconds.  The adaptive delay of                  *)
(* IntelligentRateLimitRecovery is kept in thousandths of a second.        *)
(***************************************************************************)
EXTENDS Integers, Sequences, FiniteSets, TLC

(***************************************************************************)
(* Bounds of the model and program constants                               *)
(***************************************************************************)
\* configured limits, scaled down so that the limits are reached
max_requests_per_minute == 2
max_requests_per_day == 3
circuit_breaker_threshold == 2
\* bounds on the environment
MaxRetries == 2
MaxCalls == 3
MaxTicks == 2
MaxAdmin == 1
ConcCalls == 3
ConcTicks == 1
\* BatchProcessor(max_batch_size, max_tokens_per_batch), scaled down, and
\* the inputs of batch analysis
max_batch_size == 2
max_tokens_per_batch == 3
MaxClauses == 3
\* direct calls of record_rate_limit and record_success
MaxEvents == 12
\* calls of execute_request made by the callers of _retry_with_backoff
MaxAttempts == 4
\* the clauses of a response text that is parsed on its own, and its pieces
MaxParse == 3
MaxText == 4
\* the pieces of the response text to a batch
MaxBatchText == 3
\* two calls of enhanced_batch_analyze_clauses at a time: the clauses of a
\* call and the pieces of a response
MaxConcClauses == 1
MaxConcText == 2
\* the puts of one batch back on the queue that its history tells apart
MaxRequeued == 2
\* the calls of _retry_with_backoff in each of two runs set side by side
TwinCalls == 2
\* the queue on its own: calls of _retry_with_backoff, calls of
\* execute_request, steps of the clock between the calls
QueueCalls == 3
QueueAttempts == 5
QueueTicks == 1
\* two threads in execute_request of the one queue: their calls, and the
\* steps of the clock while a call is under way
SharedCalls == 4
SharedTicks == 2
\* a clock that the process does not start at midnight: the steps by which
\* it may move when the day window is looked at
HalfDay == 43200
DaySteps == {30, HalfDay}
\* the caller threads and the steps by which the clock may move
Threads == {1, 2}
TickSteps == {30, 86400}
\* upstream outcomes: a result, an error whose text is rate-limit-shaped
\* ('429', 'rate limit', 'quota', 'too many'), any other error
Outcomes == {"ok", "rate_limit", "other"}
\* the lengths, in characters, a clause may have
ClauseLens == {3, 8, 16}

\* program constants
MinuteWindow == 60
MinuteWait == 61
DayLength == 86400
circuit_breaker_timeout == 60
base_delay == 2
max_delay == 60
CIRCUIT_BREAKER_FAILURES == 2
CIRCUIT_BREAKER_TIMEOUT == 300
SLEEP_BETWEEN_REQUESTS == 10

\* None
NoTime == -1

\* time.time() at the epoch, long before the program starts
Epoch == -86400

\* _global_rate_queue = RateLimitedQueue(max_requests_per_minute=10,
\* min_delay=8.0); the breaker of the queue; the backoff of
\* _retry_with_backoff and its bound on retries of other errors
QueueShipped == 10
min_delay == 8
QueueBreakerFailures == 3
QueueBreakerTimeout == 300
retry_base_delay == 2
retry_max_delay == 120
OtherErrorAttempts == 2
OtherErrorDelay == 1

\* IntelligentRateLimitRecovery: thousandths in a second, the delays in
\* thousandths of a second, and the thresholds of its methods
Milli == 1000
InitialAdaptiveDelay == 5000
max_adaptive_delay == 300000
min_adaptive_delay == 2000
SustainedSuccesses == 3
MaxEventsKept == 100
RecentWindow == 300
PauseFailures == 5
PauseBase == 60
PauseMax == 900
PauseEvents == 3
PauseForEvents == 120

VARIABLES
  impl,                        \* which limiter class the shared instance is
  now,                         \* the clock
  lock,                        \* self.lock: 0 when free, else the holder
  minute_requests, daily_requests,
  \* RateLimiter
  circuit_breaker_failures, circuit_breaker_reset_time,
  total_requests, rate_limited_count, successful_requests, failed_requests,
  \* ServerlessRateLimiter
  circuit_breaker_open, circuit_breaker_open_time, consecutive_failures,
  \* the locals of each caller thread: pc, attempt, max_retries, err (the
  \* exception caught last), res (how the last call ended), wake (when its
  \* sleep ends), tmp (a value read), probe (the call passed a breaker that
  \* had been open)
  th,
  \* environment: the threads that call, and what is left of the bounds
  callers, calls_left, ticks_left, admin_left,
  \* batch analysis: the queue of _global_batch_processor, and for each
  \* caller of enhanced_batch_analyze_clauses its argument and its locals
  batch_queue, clauses, bt,
  \* RateLimitedQueue: its fields (consecutive_failures as queue_failures),
  \* the max_requests_per_minute it was built with, and the locals of the
  \* caller of _retry_with_backoff
  request_times, last_request_time, circuit_breaker_open_until,
  queue_failures, queue_max, qt,
  \* IntelligentRateLimitRecovery (consecutive_failures as
  \* recovery_failures; rate_limit_events as the timestamps of the events),
  \* and what is left of the bound on direct calls of its record methods
  rate_limit_events, adaptive_delay, consecutive_successes,
  recovery_failures, events_left,
  \* what is left of the bound on calls of execute_request
  attempts_left,
  \* a call of _parse_batch_response on its own: its arguments and what it
  \* returned ({} before it has returned)
  response_text, num_clauses, parse_results,
  \* IntelligentRateLimitRecovery.lock ("free" or the caller that holds
  \* it), and where the callers of should_pause_requests stand
  recovery_lock, rc,
  \* usage_monitor.usage_stats: total_requests and the timestamps of
  \* requests_per_minute (the hour and day lists are kept the same way)
  usage,
  \* a second run set beside the first: which run is on, the calls and
  \* upstream outcomes of the first run, the control state it went through,
  \* how far the second run has come, the usage the first run began with
  twin

rlBreaker == <<circuit_breaker_failures, circuit_breaker_reset_time>>
rlStats == <<total_requests, rate_limited_count, successful_requests,
             failed_requests>>
slBreaker == <<circuit_breaker_open, circuit_breaker_open_time,
               consecutive_failures>>
windows == <<minute_requests, daily_requests>>
env == <<callers, calls_left, ticks_left, admin_left>>

limiterVars == <<impl, now, lock, windows, rlBreaker, rlStats, slBreaker,
                 th, env>>

batchVars == <<batch_queue, clauses, bt>>

queueVars == <<request_times, last_request_time, circuit_breaker_open_until,
               queue_failures, queue_max, qt>>

recoveryVars == <<rate_limit_events, adaptive_delay, consecutive_successes,
                  recovery_failures>>

parseVars == <<response_text, num_clauses, parse_results>>

analysisVars == <<recovery_lock, rc>>

monitorVars == <<usage, twin>>

optimizerVars == <<queueVars, recoveryVars, events_left, attempts_left,
                   parseVars, analysisVars, monitorVars>>

vars == <<limiterVars, batchVars, optimizerVars>>

(***************************************************************************)
(* Helpers                                                                 *)
(***************************************************************************)
Min2(a, b) == IF a <= b THEN a ELSE b

RECURSIVE Pow2(_)
Pow2(n) == IF n <= 0 THEN 1 ELSE 2 * Pow2(n - 1)

\* min(list)
SeqMin(s) == CHOOSE x \in {s[i] : i \in 1..Len(s)} :
                \A j \in 1..Len(s) : x <= s[j]

\* datetime.fromtimestamp(t).date(), as a day number
DateOf(t) == t \div DayLength

IdleLocals == [pc |-> "idle", attempt |-> 0, max_retries |-> 1,
               err |-> "none", res |-> "none", wake |-> 0, tmp |-> 0,
               probe |-> FALSE]

\* thread t moves to pc p
Goto(t, p) == [th EXCEPT ![t].pc = p]

\* thread t goes to sleep until w, to pc p
SleepUntil(t, p, w) == [th EXCEPT ![t].pc = p, ![t].wake = w]

\* the call of thread t ends with r: a result or the error raised
Return(t, r) == [th EXCEPT ![t].pc = "idle", ![t].res = r,
                           ![t].attempt = 0, ![t].max_retries = 1,
                           ![t].wake = 0, ![t].tmp = 0]

(***************************************************************************)
(* The clock                                                               *)
(***************************************************************************)
Sleeping(t) == th[t].pc \in {"wait_sleep", "backoff", "sl_wait_sleep",
                             "sl_pace"}

\* time passes
Tick(d) ==
  /\ ticks_left > 0
  /\ now' = now + d
  /\ ticks_left' = ticks_left - 1
  /\ UNCHANGED <<batchVars, optimizerVars, impl, lock, windows, rlBreaker, rlStats, slBreaker, th,
                 callers, calls_left, admin_left>>

\* time passes until the next sleeper is due
AdvanceToWake ==
  /\ \E t \in Threads : Sleeping(t) /\ th[t].wake > now
  /\ now' = CHOOSE w \in {th[t].wake : t \in {u \in Threads :
                                  Sleeping(u) /\ th[u].wake > now}} :
              \A t \in Threads :
                 (Sleeping(t) /\ th[t].wake > now) => w <= th[t].wake
  /\ UNCHANGED <<batchVars, optimizerVars, impl, lock, windows, rlBreaker, rlStats, slBreaker, th, env>>

(***************************************************************************)
(* RateLimiter                                                             *)
(***************************************************************************)
\* _clean_request_history: the two windows after cleaning at time t
CleanMinute(s, t) == SelectSeq(s, LAMBDA x : t - x < MinuteWindow)
CleanDaily(s, t) == SelectSeq(s, LAMBDA x : DateOf(x) = DateOf(t))

\* _is_circuit_open: the value returned and the breaker fields it leaves
IsCircuitOpen(f, rt, t) ==
  IF f >= circuit_breaker_threshold
  THEN IF rt # NoTime
       THEN IF t < rt
            THEN [ret |-> TRUE, failures |-> f, reset_time |-> rt]
            ELSE [ret |-> FALSE, failures |-> 0, reset_time |-> NoTime]
       ELSE [ret |-> TRUE, failures |-> f,
             reset_time |-> t + circuit_breaker_timeout]
  ELSE [ret |-> FALSE, failures |-> f, reset_time |-> rt]

\* _calculate_backoff_delay, the jitter of less than a second left out
CalculateBackoffDelay(a) == Min2(base_delay * Pow2(a), max_delay)

\* the call starts: for attempt in range(max_retries)
RLBegin(t, r) ==
  /\ impl = "RateLimiter"
  /\ th[t].pc = "idle"
  /\ t \in callers
  /\ calls_left > 0
  /\ calls_left' = calls_left - 1
  /\ th' = [th EXCEPT ![t] = [IdleLocals EXCEPT !.pc = "wait",
                                                !.max_retries = r]]
  /\ UNCHANGED <<batchVars, optimizerVars, impl, now, lock, windows, rlBreaker, rlStats, slBreaker,
                 callers, ticks_left, admin_left>>

\* what _wait_if_needed does with the lock taken, up to its sleep, its raise
\* or its return: "circuit" and "minute" sleep holding the lock
WaitIfNeededBranch(cb, m, d) ==
  IF cb.ret THEN "circuit"
  ELSE IF Len(m) >= max_requests_per_minute
          /\ MinuteWait - (now - SeqMin(m)) > 0 THEN "minute"
  ELSE IF Len(d) >= max_requests_per_day THEN "daily"
  ELSE "pass"

RLWaitIfNeeded(t) ==
  /\ impl = "RateLimiter"
  /\ th[t].pc = "wait"
  /\ lock = 0
  /\ LET m == CleanMinute(minute_requests, now)
         d == CleanDaily(daily_requests, now)
         cb == IsCircuitOpen(circuit_breaker_failures,
                             circuit_breaker_reset_time, now)
         br == WaitIfNeededBranch(cb, m, d)
         \* the attempt follows an open breaker: it slept out the timeout,
         \* or its check found the timeout elapsed
         pr == cb.ret \/ cb.failures < circuit_breaker_failures
     IN /\ minute_requests' = m
        /\ daily_requests' = d
        /\ circuit_breaker_failures' = cb.failures
        /\ circuit_breaker_reset_time' = cb.reset_time
        /\ lock' = IF br \in {"circuit", "minute"} THEN t ELSE 0
        /\ th' = CASE br = "circuit" ->
                        \* time.sleep(reset_time - time.time())
                        [th EXCEPT ![t].pc = "wait_sleep",
                                   ![t].wake = cb.reset_time,
                                   ![t].probe = pr]
                   [] br = "minute" ->
                        \* time.sleep(61 - (time.time() - oldest_request))
                        [th EXCEPT ![t].pc = "wait_sleep",
                                   ![t].wake = now + MinuteWait
                                                  - (now - SeqMin(m)),
                                   ![t].probe = pr]
                   [] br = "daily" ->
                        \* raise Exception("Daily rate limit exceeded. ...")
                        \* its text holds 'rate limit': the handler of
                        \* execute_with_rate_limit takes the rate-limit branch
                        [th EXCEPT ![t].pc = "count_read",
                                   ![t].err = "daily",
                                   ![t].probe = pr]
                   [] OTHER ->
                        \* time.sleep(0.5); return False
                        [th EXCEPT ![t].pc = "call", ![t].probe = pr]
  /\ UNCHANGED <<batchVars, optimizerVars, impl, now, rlStats, slBreaker, env>>

\* the sleep of _wait_if_needed ends: return True, the lock is released
RLWaitWake(t) ==
  /\ impl = "RateLimiter"
  /\ th[t].pc = "wait_sleep"
  /\ now >= th[t].wake
  /\ lock' = 0
  /\ th' = Goto(t, "call")
  /\ UNCHANGED <<batchVars, optimizerVars, impl, now, windows, rlBreaker, rlStats, slBreaker, env>>

\* where the handler of execute_with_rate_limit goes on outcome o of func()
AfterCall(o) == CASE o = "ok" -> "rec_ok"
                  [] o = "rate_limit" -> "count_read"
                  [] OTHER -> "rec_other"

\* result = func()
RLCall(t, o) ==
  /\ impl = "RateLimiter"
  /\ th[t].pc = "call"
  /\ th' = [th EXCEPT ![t].pc = AfterCall(o),
                      ![t].err = IF o = "ok" THEN @ ELSE o]
  /\ UNCHANGED <<batchVars, optimizerVars, impl, now, lock, windows, rlBreaker, rlStats, slBreaker,
                 env>>

\* a record_request that clears the failure count whatever the outcome
FailuresCleared(f, success) == 0

\* circuit_breaker_failures after record_request(success)
FailuresAfterRecord(f, success) == IF success THEN 0 ELSE f + 1

\* record_request(success), run under the lock
RecordRequest(success) ==
  /\ lock = 0
  /\ minute_requests' = Append(minute_requests, now)
  /\ daily_requests' = Append(daily_requests, now)
  /\ total_requests' = total_requests + 1
  /\ successful_requests' = successful_requests + (IF success THEN 1 ELSE 0)
  /\ failed_requests' = failed_requests + (IF success THEN 0 ELSE 1)
  /\ circuit_breaker_failures' =
        FailuresAfterRecord(circuit_breaker_failures, success)
  /\ UNCHANGED <<batchVars, optimizerVars, impl, now, lock, circuit_breaker_reset_time,
                 rate_limited_count, slBreaker, env>>

\* self.record_request(success=True); return result
RLRecordSuccess(t) ==
  /\ impl = "RateLimiter"
  /\ th[t].pc = "rec_ok"
  /\ RecordRequest(TRUE)
  /\ th' = Return(t, "ok")

\* self.rate_limited_count += 1, made without the lock: the read
RLCountRead(t) ==
  /\ impl = "RateLimiter"
  /\ th[t].pc = "count_read"
  /\ th' = [th EXCEPT ![t].pc = "count_write", ![t].tmp = rate_limited_count]
  /\ UNCHANGED <<batchVars, optimizerVars, impl, now, lock, windows, rlBreaker, rlStats, slBreaker,
                 env>>

\* self.rate_limited_count += 1, made without the lock: the write
RLCountWrite(t) ==
  /\ impl = "RateLimiter"
  /\ th[t].pc = "count_write"
  /\ rate_limited_count' = th[t].tmp + 1
  /\ th' = [th EXCEPT ![t].pc = "rec_fail", ![t].tmp = 0]
  /\ UNCHANGED <<batchVars, optimizerVars, impl, now, lock, windows, rlBreaker, total_requests,
                 successful_requests, failed_requests, slBreaker, env>>

\* whether the rate-limit branch sleeps and goes on to another attempt
Retries(a, n) == a < n - 1

\* the rate-limit branch: record_request(success=False), then the backoff
\* sleep and the next attempt, or the end of the loop and the final raise
RLRecordFailure(t) ==
  /\ impl = "RateLimiter"
  /\ th[t].pc = "rec_fail"
  /\ RecordRequest(FALSE)
  /\ th' = IF Retries(th[t].attempt, th[t].max_retries)
           THEN SleepUntil(t, "backoff",
                           now + CalculateBackoffDelay(th[t].attempt))
           ELSE Return(t, "exhausted")

\* the backoff sleep ends: continue with the next attempt
RLBackoffWake(t) ==
  /\ impl = "RateLimiter"
  /\ th[t].pc = "backoff"
  /\ now >= th[t].wake
  /\ th' = [th EXCEPT ![t].pc = "wait", ![t].attempt = @ + 1, ![t].wake = 0,
                      ![t].err = "none"]
  /\ UNCHANGED <<batchVars, optimizerVars, impl, now, lock, windows, rlBreaker, rlStats, slBreaker,
                 env>>

\* the other branch: record_request(success=False); raise e
RLRecordOther(t) ==
  /\ impl = "RateLimiter"
  /\ th[t].pc = "rec_other"
  /\ RecordRequest(FALSE)
  /\ th' = Return(t, "error")

\* RateLimiter.get_statistics (the rate-limit status endpoint)
RLGetStatistics ==
  /\ impl = "RateLimiter"
  /\ lock = 0
  /\ admin_left > 0
  /\ admin_left' = admin_left - 1
  /\ LET cb == IsCircuitOpen(circuit_breaker_failures,
                             circuit_breaker_reset_time, now)
     IN /\ minute_requests' = CleanMinute(minute_requests, now)
        /\ daily_requests' = CleanDaily(daily_requests, now)
        /\ circuit_breaker_failures' = cb.failures
        /\ circuit_breaker_reset_time' = cb.reset_time
  /\ UNCHANGED <<batchVars, optimizerVars, impl, now, lock, rlStats, slBreaker, th, callers,
                 calls_left, ticks_left>>

\* RateLimiter.reset_statistics (the rate-limit reset endpoint)
RLResetStatistics ==
  /\ impl = "RateLimiter"
  /\ lock = 0
  /\ admin_left > 0
  /\ admin_left' = admin_left - 1
  /\ total_requests' = 0
  /\ successful_requests' = 0
  /\ failed_requests' = 0
  /\ rate_limited_count' = 0
  /\ circuit_breaker_failures' = 0
  /\ circuit_breaker_reset_time' = NoTime
  /\ UNCHANGED <<batchVars, optimizerVars, impl, now, lock, windows, slBreaker, th, callers,
                 calls_left, ticks_left>>

RLCallerNext ==
  \/ \E t \in Threads, r \in 1..MaxRetries : RLBegin(t, r)
  \/ \E t \in Threads : RLWaitIfNeeded(t)
  \/ \E t \in Threads : RLWaitWake(t)
  \/ \E t \in Threads, o \in Outcomes : RLCall(t, o)
  \/ \E t \in Threads : RLRecordSuccess(t)
  \/ \E t \in Threads : RLCountRead(t)
  \/ \E t \in Threads : RLCountWrite(t)
  \/ \E t \in Threads : RLRecordFailure(t)
  \/ \E t \in Threads : RLBackoffWake(t)
  \/ \E t \in Threads : RLRecordOther(t)

(***************************************************************************)
(* ServerlessRateLimiter                                                   *)
(***************************************************************************)
\* _cleanup_old_requests: the two windows after cleaning at time t
CleanupMinute(s, t) == SelectSeq(s, LAMBDA x : t - x < MinuteWindow)
CleanupDaily(s, t) == SelectSeq(s, LAMBDA x : t - x < DayLength)

\* _check_circuit_breaker, run without the lock.
\* if not self.circuit_breaker_open: return False
SLCheckFlag(t) ==
  /\ impl = "ServerlessRateLimiter"
  /\ th[t].pc = "idle"
  /\ t \in callers
  /\ calls_left > 0
  /\ calls_left' = calls_left - 1
  /\ th' = [th EXCEPT ![t] = [IdleLocals EXCEPT !.pc =
                IF circuit_breaker_open THEN "sl_cmp" ELSE "sl_wait"]]
  /\ UNCHANGED <<batchVars, optimizerVars, impl, now, lock, windows, rlBreaker, rlStats, slBreaker,
                 callers, ticks_left, admin_left>>

\* a comparison that takes the timeout for elapsed as soon as the breaker opens
TimeoutIgnored(t, open_time) == (t - open_time) >= 0

\* (time.time() - self.circuit_breaker_open_time) > self.circuit_breaker_timeout
TimeoutElapsed(t, open_time) == (t - open_time) > CIRCUIT_BREAKER_TIMEOUT

\* the comparison: TypeError when the open time is None by now; the reset
\* when the timeout has elapsed; else return True, and execute_with_rate_limit
\* raises Exception("Circuit breaker is open - too many failures")
SLCheckTime(t) ==
  /\ impl = "ServerlessRateLimiter"
  /\ th[t].pc = "sl_cmp"
  /\ th' = IF circuit_breaker_open_time = NoTime
           THEN Return(t, "type_error")
           ELSE IF TimeoutElapsed(now, circuit_breaker_open_time)
           THEN Goto(t, "sl_reset_open")
           ELSE Return(t, "circuit_open")
  /\ UNCHANGED <<batchVars, optimizerVars, impl, now, lock, windows, rlBreaker, rlStats, slBreaker,
                 env>>

\* self.circuit_breaker_open = False
SLResetOpen(t) ==
  /\ impl = "ServerlessRateLimiter"
  /\ th[t].pc = "sl_reset_open"
  /\ circuit_breaker_open' = FALSE
  /\ th' = Goto(t, "sl_reset_time")
  /\ UNCHANGED <<batchVars, optimizerVars, impl, now, lock, windows, rlBreaker, rlStats,
                 circuit_breaker_open_time, consecutive_failures, env>>

\* self.circuit_breaker_open_time = None
SLResetTime(t) ==
  /\ impl = "ServerlessRateLimiter"
  /\ th[t].pc = "sl_reset_time"
  /\ circuit_breaker_open_time' = NoTime
  /\ th' = Goto(t, "sl_reset_failures")
  /\ UNCHANGED <<batchVars, optimizerVars, impl, now, lock, windows, rlBreaker, rlStats,
                 circuit_breaker_open, consecutive_failures, env>>

\* a reset that leaves the failure count as it is
SLResetKeepsFailures(t) ==
  /\ impl = "ServerlessRateLimiter"
  /\ th[t].pc = "sl_reset_failures"
  /\ th' = [th EXCEPT ![t].pc = "sl_wait", ![t].probe = TRUE]
  /\ UNCHANGED <<batchVars, optimizerVars, impl, now, lock, windows, rlBreaker, rlStats,
                 slBreaker, env>>

\* self.consecutive_failures = 0; return False
SLResetFailures(t) ==
  /\ impl = "ServerlessRateLimiter"
  /\ th[t].pc = "sl_reset_failures"
  /\ consecutive_failures' = 0
  /\ th' = [th EXCEPT ![t].pc = "sl_wait", ![t].probe = TRUE]
  /\ UNCHANGED <<batchVars, optimizerVars, impl, now, lock, windows, rlBreaker, rlStats,
                 circuit_breaker_open, circuit_breaker_open_time, env>>

\* the daily check of _wait_for_rate_limit
DailyLimitHit(d) == Len(d) >= max_requests_per_day - 1

\* _wait_for_rate_limit with the lock taken, up to its sleep, its raise or
\* its return
SLWaitForRateLimit(t) ==
  /\ impl = "ServerlessRateLimiter"
  /\ th[t].pc = "sl_wait"
  /\ lock = 0
  /\ LET m == CleanupMinute(minute_requests, now)
         d == CleanupDaily(daily_requests, now)
     IN /\ minute_requests' = m
        /\ daily_requests' = d
        /\ IF Len(m) >= max_requests_per_minute - 1
           THEN IF Len(m) = 0
                THEN \* min([]) raises ValueError
                     /\ lock' = 0
                     /\ th' = Return(t, "value_error")
                ELSE IF MinuteWindow - (now - SeqMin(m)) + 1 > 0
                THEN \* time.sleep(wait_time) with the lock held
                     /\ lock' = t
                     /\ th' = SleepUntil(t, "sl_wait_sleep",
                                 now + MinuteWindow - (now - SeqMin(m)) + 1)
                ELSE /\ lock' = 0
                     /\ th' = IF DailyLimitHit(d) THEN Return(t, "daily")
                              ELSE Goto(t, "sl_stamp")
           ELSE /\ lock' = 0
                /\ th' = IF DailyLimitHit(d) THEN Return(t, "daily")
                         ELSE Goto(t, "sl_stamp")
  /\ UNCHANGED <<batchVars, optimizerVars, impl, now, rlBreaker, rlStats, slBreaker, env>>

\* the sleep ends: _cleanup_old_requests again, the daily check, the release
SLWaitWake(t) ==
  /\ impl = "ServerlessRateLimiter"
  /\ th[t].pc = "sl_wait_sleep"
  /\ now >= th[t].wake
  /\ lock' = 0
  /\ minute_requests' = CleanupMinute(minute_requests, now)
  /\ daily_requests' = CleanupDaily(daily_requests, now)
  /\ th' = IF DailyLimitHit(CleanupDaily(daily_requests, now))
           THEN Return(t, "daily")
           ELSE [th EXCEPT ![t].pc = "sl_stamp", ![t].wake = 0]
  /\ UNCHANGED <<batchVars, optimizerVars, impl, now, rlBreaker, rlStats, slBreaker, env>>

\* now = time.time(), read before the lock is taken
SLStamp(t) ==
  /\ impl = "ServerlessRateLimiter"
  /\ th[t].pc = "sl_stamp"
  /\ th' = [th EXCEPT ![t].pc = "sl_record", ![t].tmp = now]
  /\ UNCHANGED <<batchVars, optimizerVars, impl, now, lock, windows, rlBreaker, rlStats, slBreaker,
                 env>>

\* with self.lock: the timestamp is appended to both windows; then
\* time.sleep(self.sleep_between_requests)
SLRecord(t) ==
  /\ impl = "ServerlessRateLimiter"
  /\ th[t].pc = "sl_record"
  /\ lock = 0
  /\ minute_requests' = Append(minute_requests, th[t].tmp)
  /\ daily_requests' = Append(daily_requests, th[t].tmp)
  /\ th' = IF SLEEP_BETWEEN_REQUESTS > 0
           THEN [th EXCEPT ![t].pc = "sl_pace", ![t].tmp = 0,
                           ![t].wake = now + SLEEP_BETWEEN_REQUESTS]
           ELSE [th EXCEPT ![t].pc = "sl_call", ![t].tmp = 0]
  /\ UNCHANGED <<batchVars, optimizerVars, impl, now, lock, rlBreaker, rlStats, slBreaker, env>>

\* the sleep between requests ends
SLPaceWake(t) ==
  /\ impl = "ServerlessRateLimiter"
  /\ th[t].pc = "sl_pace"
  /\ now >= th[t].wake
  /\ th' = [th EXCEPT ![t].pc = "sl_call", ![t].wake = 0]
  /\ UNCHANGED <<batchVars, optimizerVars, impl, now, lock, windows, rlBreaker, rlStats, slBreaker,
                 env>>

\* result = func(*args, **kwargs)
SLCall(t, o) ==
  /\ impl = "ServerlessRateLimiter"
  /\ th[t].pc = "sl_call"
  /\ th' = [th EXCEPT ![t].pc = IF o = "ok" THEN "sl_success"
                                ELSE "sl_failure",
                      ![t].err = IF o = "ok" THEN @ ELSE o]
  /\ UNCHANGED <<batchVars, optimizerVars, impl, now, lock, windows, rlBreaker, rlStats, slBreaker,
                 env>>

\* with self.lock: self.consecutive_failures = 0; return result
SLSuccess(t) ==
  /\ impl = "ServerlessRateLimiter"
  /\ th[t].pc = "sl_success"
  /\ lock = 0
  /\ consecutive_failures' = 0
  /\ th' = Return(t, "ok")
  /\ UNCHANGED <<batchVars, optimizerVars, impl, now, lock, windows, rlBreaker, rlStats,
                 circuit_breaker_open, circuit_breaker_open_time, env>>

\* a handler that opens the breaker one failure late
OpensBreakerLate(f) == f > CIRCUIT_BREAKER_FAILURES

\* whether the failure handler opens the breaker at f failures
OpensBreaker(f) == f >= CIRCUIT_BREAKER_FAILURES

\* with self.lock: the failure is counted and the breaker opened; raise e
SLFailure(t) ==
  /\ impl = "ServerlessRateLimiter"
  /\ th[t].pc = "sl_failure"
  /\ lock = 0
  /\ consecutive_failures' = consecutive_failures + 1
  /\ IF OpensBreaker(consecutive_failures + 1)
     THEN /\ circuit_breaker_open' = TRUE
          /\ circuit_breaker_open_time' = now
     ELSE UNCHANGED <<circuit_breaker_open, circuit_breaker_open_time>>
  /\ th' = Return(t, "error")
  /\ UNCHANGED <<batchVars, optimizerVars, impl, now, lock, windows, rlBreaker, rlStats, env>>

\* ServerlessRateLimiter.get_statistics
SLGetStatistics ==
  /\ impl = "ServerlessRateLimiter"
  /\ lock = 0
  /\ admin_left > 0
  /\ admin_left' = admin_left - 1
  /\ minute_requests' = CleanupMinute(minute_requests, now)
  /\ daily_requests' = CleanupDaily(daily_requests, now)
  /\ UNCHANGED <<batchVars, optimizerVars, impl, now, lock, rlBreaker, rlStats, slBreaker, th,
                 callers, calls_left, ticks_left>>

\* ServerlessRateLimiter.reset_statistics
SLResetStatistics ==
  /\ impl = "ServerlessRateLimiter"
  /\ lock = 0
  /\ admin_left > 0
  /\ admin_left' = admin_left - 1
  /\ minute_requests' = <<>>
  /\ daily_requests' = <<>>
  /\ circuit_breaker_open' = FALSE
  /\ circuit_breaker_open_time' = NoTime
  /\ consecutive_failures' = 0
  /\ UNCHANGED <<batchVars, optimizerVars, impl, now, lock, rlBreaker, rlStats, th, callers,
                 calls_left, ticks_left>>

SLCallerNext ==
  \/ \E t \in Threads : SLCheckFlag(t)
  \/ \E t \in Threads : SLCheckTime(t)
  \/ \E t \in Threads : SLResetOpen(t)
  \/ \E t \in Threads : SLResetTime(t)
  \/ \E t \in Threads : SLResetFailures(t)
  \/ \E t \in Threads : SLWaitForRateLimit(t)
  \/ \E t \in Threads : SLWaitWake(t)
  \/ \E t \in Threads : SLStamp(t)
  \/ \E t \in Threads : SLRecord(t)
  \/ \E t \in Threads : SLPaceWake(t)
  \/ \E t \in Threads, o \in Outcomes : SLCall(t, o)
  \/ \E t \in Threads : SLSuccess(t)
  \/ \E t \in Threads : SLFailure(t)

(***************************************************************************)
(* BatchProcessor and GeminiAPIOptimizer.enhanced_batch_analyze_clauses    *)
(***************************************************************************)
BCallers == {1, 2}

\* the clause lists of at most n clauses
ClauseLists(n) == UNION {[1..k -> ClauseLens] : k \in 0..n}

\* A response text, as the sequence of its pieces: the label
\* CLAUSE_i_ANALYSIS:, a JSON value on one line, text that is no JSON, a
\* blank line ("\n\n"), a code fence ("```"); single line breaks and blanks
\* between the pieces are not kept, strip() and json.loads ignore them.
Label(i) == <<"label", i>>
\* what a JSON value of the upstream says of the risk: a risk_level of the
\* three the prompt asks for, another risk_level, or no risk_level at all
JsonLevels == {"Low", "Critical", "absent"}
Json(v) == <<"json", v>>
IsJson(piece) == piece[1] = "json"
NoJson == <<"text", 0>>
BlankLine == <<"blank", 0>>
Fence == <<"fence", 0>>

\* the pieces of a text that has labels up to n
Pieces(n) == {Label(i) : i \in 1..n} \cup {Json(v) : v \in JsonLevels}
               \cup {NoJson, BlankLine, Fence}

\* the texts of at most len pieces with labels up to n
Texts(n, len) == UNION {[1..k -> Pieces(n)] : k \in 0..len}

\* the upstream responses to a batch
Responses == Texts(max_batch_size, MaxBatchText)

\* _split_into_batches: the loop over clauses from position i on, with the
\* batches closed so far, the current batch and its token count
RECURSIVE SplitLoop(_, _, _, _, _)
SplitLoop(cl, i, batches, current_batch, current_tokens) ==
  IF i > Len(cl)
  THEN IF current_batch # <<>> THEN Append(batches, current_batch)
       ELSE batches
  ELSE LET clause_tokens == cl[i] \div 4
           full == \/ Len(current_batch) >= max_batch_size
                   \/ current_tokens + clause_tokens > max_tokens_per_batch
       IN IF full /\ current_batch # <<>>
          THEN SplitLoop(cl, i + 1, Append(batches, current_batch),
                         <<cl[i]>>, clause_tokens)
          ELSE SplitLoop(cl, i + 1, batches, Append(current_batch, cl[i]),
                         current_tokens + clause_tokens)

\* a split that loses the first clause
SplitSkipsFirst(cl) == SplitLoop(cl, 2, <<>>, <<>>, 0)

\* a split that puts every clause into one batch
SplitUnbounded(cl) == IF cl = <<>> THEN <<>> ELSE <<cl>>

SplitIntoBatches(cl) == SplitLoop(cl, 1, <<>>, <<>>, 0)

\* the key under which _parse_batch_response files clause i of a batch:
\* f"Clause {i}", kept as the number i
ClauseKey(i) == i

\* response_text.find of any of the pieces ps from position start on: the
\* first position, 0 when there is none
Find(text, ps, start) ==
  LET hits == {p \in start..Len(text) : text[p] \in ps}
  IN IF hits = {} THEN 0 ELSE CHOOSE p \in hits : \A q \in hits : p <= q

\* the entry for a label that is not found
FallbackNotFound(i) ==
  [text |-> i,
   analysis |-> [risk_level |-> "Medium",
                 analysis |-> "review recommended"]]

\* the entry for a block json.loads does not take
FallbackNoJson(i) ==
  [text |-> i,
   analysis |-> [risk_level |-> "Medium",
                 analysis |-> "manual review recommended"]]

\* the entry for a block json.loads takes: "analysis" is the value as the
\* upstream wrote it
ParsedEntry(i, piece) ==
  [text |-> i,
   analysis |-> [risk_level |-> piece[2], analysis |-> "upstream"]]

\* the entry _parse_batch_response makes for clause i of response text r:
\* the text after the first CLAUSE_i_ANALYSIS: up to the next
\* CLAUSE_{i+1}_ANALYSIS:, code fence or blank line is given to json.loads
ParseEntry(r, i) ==
  LET at == Find(r, {Label(i)}, 1)
      start_idx == at + 1
      stop == Find(r, {Label(i + 1), Fence, BlankLine}, start_idx)
      end_idx == IF stop = 0 THEN Len(r) + 1 ELSE stop
      json_text == SubSeq(r, start_idx, end_idx - 1)
  IN IF at = 0 THEN FallbackNotFound(i)
     ELSE IF Len(json_text) = 1 /\ IsJson(json_text[1])
     THEN ParsedEntry(i, json_text[1])
     ELSE FallbackNoJson(i)

\* _parse_batch_response(response_text, num_clauses): a dict, as the set of
\* its (key, entry) pairs
ParseBatchResponse(r, n) ==
  {<<ClauseKey(i), ParseEntry(r, i)>> : i \in 1..n}

Keys(d) == {kv[1] : kv \in d}

\* dict.update
Update(d, e) == {kv \in d : kv[1] \notin Keys(e)} \cup e

BIdle == [pc |-> "idle", all_results |-> {}, batch_count |-> 0,
          cur |-> <<>>]

\* a start that goes into the loop with an empty list too
BStartUnguarded(c) ==
  /\ bt[c].pc = "idle"
  /\ bt' = [bt EXCEPT ![c].pc = "loop"]
  /\ batch_queue' = batch_queue \o
       [i \in 1..Len(SplitIntoBatches(clauses[c])) |->
          [clauses |-> SplitIntoBatches(clauses[c])[i], owner |-> c,
           requeued |-> 0]]
  /\ UNCHANGED <<clauses, limiterVars, optimizerVars>>

\* enhanced_batch_analyze_clauses(clauses) up to its loop: the empty list
\* returns {}; else add_to_batch_queue splits and queues the batches
BStart(c) ==
  /\ bt[c].pc = "idle"
  /\ IF clauses[c] = <<>>
     THEN /\ bt' = [bt EXCEPT ![c].pc = "done"]
          /\ batch_queue' = batch_queue
     ELSE /\ bt' = [bt EXCEPT ![c].pc = "loop"]
          /\ batch_queue' = batch_queue \o
               [i \in 1..Len(SplitIntoBatches(clauses[c])) |->
                  [clauses |-> SplitIntoBatches(clauses[c])[i], owner |-> c,
           requeued |-> 0]]
  /\ UNCHANGED <<clauses, limiterVars, optimizerVars>>

\* process_next_batch: batch_queue.get_nowait(); on queue.Empty it returns
\* {}, and the loop of enhanced_batch_analyze_clauses breaks and returns
BGetNext(c) ==
  /\ bt[c].pc = "loop"
  /\ IF batch_queue = <<>>
     THEN /\ bt' = [bt EXCEPT ![c].pc = "done"]
          /\ batch_queue' = batch_queue
     ELSE /\ bt' = [bt EXCEPT ![c].pc = "submit",
                              ![c].cur = Head(batch_queue)]
          /\ batch_queue' = Tail(batch_queue)
  /\ UNCHANGED <<clauses, limiterVars, optimizerVars>>

\* _process_batch_with_sleep returned the response r: the parsed result is
\* merged into all_results, batch_count += 1, the sleep between batches
BBatchDone(c, r) ==
  /\ bt[c].pc = "submit"
  /\ LET batch_result == ParseBatchResponse(r, Len(bt[c].cur.clauses))
     IN bt' = IF batch_result = {}
              THEN [bt EXCEPT ![c].pc = "done", ![c].cur = <<>>]
              ELSE [bt EXCEPT ![c].pc = "loop", ![c].cur = <<>>,
                      ![c].all_results = Update(@, batch_result),
                      ![c].batch_count = @ + 1]
  /\ UNCHANGED <<batch_queue, clauses, limiterVars, optimizerVars>>

\* _process_batch_with_sleep raised after its retries: process_next_batch
\* sleeps 30 s, puts the batch back on the queue and raises; the loop of
\* enhanced_batch_analyze_clauses continues.  requeued is the history of the
\* batch: how often it was put back, counted up to MaxRequeued
BBatchFailed(c) ==
  /\ bt[c].pc = "submit"
  /\ batch_queue' = Append(batch_queue,
                           [bt[c].cur EXCEPT
                              !.requeued = Min2(@ + 1, MaxRequeued)])
  /\ bt' = [bt EXCEPT ![c].pc = "loop", ![c].cur = <<>>]
  /\ UNCHANGED <<clauses, limiterVars, optimizerVars>>

BatchNext ==
  \/ \E c \in BCallers : BStart(c)
  \/ \E c \in BCallers : BGetNext(c)
  \/ \E c \in BCallers, r \in Responses : BBatchDone(c, r)
  \/ \E c \in BCallers : BBatchFailed(c)

(***************************************************************************)
(* IntelligentRateLimitRecovery                                            *)
(***************************************************************************)
Max2(a, b) == IF a >= b THEN a ELSE b

\* a delay raised without the cap of max_adaptive_delay
IncreaseUncapped(d, f) == (d * (15 + 2 * f)) \div 10

\* _increase_adaptive_delay at f consecutive failures:
\* min(adaptive_delay * (1.5 + f * 0.2), max_adaptive_delay)
IncreaseAdaptiveDelay(d, f) ==
  Min2((d * (15 + 2 * f)) \div 10, max_adaptive_delay)

\* a delay lowered without the floor of min_adaptive_delay
DecreaseUnfloored(d) == (d * 9) \div 10

\* _decrease_adaptive_delay: max(adaptive_delay * 0.9, min_adaptive_delay)
\* when the delay is above the minimum
DecreaseAdaptiveDelay(d) ==
  IF d > min_adaptive_delay
  THEN Max2((d * 9) \div 10, min_adaptive_delay)
  ELSE d

\* a test that takes every success for sustained success
AnySuccess(n) == n >= 1

\* if self.consecutive_successes >= 3
SustainedSuccess(n) == n >= SustainedSuccesses

\* self.rate_limit_events[-100:]
KeepLast(s) == IF Len(s) > MaxEventsKept
               THEN SubSeq(s, Len(s) - MaxEventsKept + 1, Len(s))
               ELSE s

\* record_rate_limit(error_message), called at time ts
RecordRateLimit(ts) ==
  /\ rate_limit_events' = KeepLast(Append(rate_limit_events, ts))
  /\ recovery_failures' = recovery_failures + 1
  /\ consecutive_successes' = 0
  /\ adaptive_delay' = IncreaseAdaptiveDelay(adaptive_delay,
                                             recovery_failures + 1)

\* record_success()
RecordSuccess ==
  /\ consecutive_successes' = consecutive_successes + 1
  /\ recovery_failures' = 0
  /\ adaptive_delay' = IF SustainedSuccess(consecutive_successes + 1)
                       THEN DecreaseAdaptiveDelay(adaptive_delay)
                       ELSE adaptive_delay
  /\ UNCHANGED rate_limit_events

\* a delay that is taken from the contents of usage_monitor
DelayFromUsage(t) ==
  IF usage.total_requests > 0
  THEN max_adaptive_delay
  ELSE IF \E i \in 1..Len(rate_limit_events) :
             t - rate_limit_events[i] < RecentWindow
       THEN adaptive_delay
       ELSE min_adaptive_delay

\* get_recommended_delay() at time t, in thousandths of a second (no event
\* carries a retry_after: record_rate_limit is only called with the message)
GetRecommendedDelay(t) ==
  IF \E i \in 1..Len(rate_limit_events) :
        t - rate_limit_events[i] < RecentWindow
  THEN adaptive_delay
  ELSE min_adaptive_delay

\* should_pause_requests() at time t: the pause in seconds, 0 for no pause
ShouldPauseRequests(t) ==
  IF recovery_failures >= PauseFailures
  THEN Min2(PauseBase * Pow2(recovery_failures - PauseFailures), PauseMax)
  ELSE IF Len(SelectSeq(rate_limit_events,
                        LAMBDA x : t - x < MinuteWindow)) >= PauseEvents
  THEN PauseForEvents
  ELSE 0

\* record_rate_limit called on the recovery object
RecRecordRateLimit ==
  /\ recovery_lock = "free"
  /\ events_left > 0
  /\ events_left' = events_left - 1
  /\ RecordRateLimit(now)
  /\ UNCHANGED <<monitorVars, limiterVars, batchVars, queueVars, attempts_left, parseVars,
                 analysisVars>>

\* record_success called on the recovery object
RecRecordSuccess ==
  /\ recovery_lock = "free"
  /\ events_left > 0
  /\ events_left' = events_left - 1
  /\ RecordSuccess
  /\ UNCHANGED <<monitorVars, limiterVars, batchVars, queueVars, attempts_left, parseVars,
                 analysisVars>>

RecoveryNext == RecRecordRateLimit \/ RecRecordSuccess

\* the callers of should_pause_requests: execute_request of the queue, and
\* get_rate_limit_analysis of the recovery object itself
PauseCallers == {"execute_request", "get_rate_limit_analysis"}

\* get_rate_limit_analysis(): `with self.lock:` is entered and the events
\* are counted
AnalysisCall ==
  /\ rc["get_rate_limit_analysis"] = "idle"
  /\ recovery_lock = "free"
  /\ recovery_lock' = "get_rate_limit_analysis"
  /\ rc' = [rc EXCEPT !["get_rate_limit_analysis"] = "holding"]
  /\ UNCHANGED <<monitorVars, limiterVars, batchVars, queueVars, recoveryVars, parseVars,
                 events_left, attempts_left>>

\* should_pause_requests() is called: by execute_request, or by
\* get_rate_limit_analysis for "should_pause", within its `with self.lock:`
PauseCall(who) ==
  /\ rc[who] = IF who = "get_rate_limit_analysis" THEN "holding" ELSE "idle"
  /\ rc' = [rc EXCEPT ![who] = "acquire"]
  /\ UNCHANGED <<monitorVars, limiterVars, batchVars, queueVars, recoveryVars, parseVars,
                 events_left, attempts_left, recovery_lock>>

\* `with self.lock:` of should_pause_requests: threading.Lock is not
\* reentrant, the caller goes on when the lock is free
PauseAcquire(who) ==
  /\ rc[who] = "acquire"
  /\ recovery_lock = "free"
  /\ recovery_lock' = who
  /\ rc' = [rc EXCEPT ![who] = "in_pause"]
  /\ UNCHANGED <<monitorVars, limiterVars, batchVars, queueVars, recoveryVars, parseVars,
                 events_left, attempts_left>>

\* should_pause_requests returns and its `with` gives the lock back; the
\* caller has its answer
PauseReturn(who) ==
  /\ rc[who] = "in_pause"
  /\ recovery_lock' = "free"
  /\ rc' = [rc EXCEPT ![who] = "done"]
  /\ UNCHANGED <<monitorVars, limiterVars, batchVars, queueVars, recoveryVars, parseVars,
                 events_left, attempts_left>>

AnalysisNext ==
  \/ AnalysisCall
  \/ \E who \in PauseCallers : PauseCall(who)
  \/ \E who \in PauseCallers : PauseAcquire(who)
  \/ \E who \in PauseCallers : PauseReturn(who)
  \/ RecRecordRateLimit
  \/ RecRecordSuccess

(***************************************************************************)
(* RateLimitedQueue and GeminiAPIOptimizer._retry_with_backoff             *)
(***************************************************************************)
\* the max_requests_per_minute the queue is built with: a small one, and the
\* one of _global_rate_queue
QueueSizes == {max_requests_per_minute, QueueShipped}

\* upstream outcomes seen by the queue and by _retry_with_backoff: a result;
\* an error with '429', 'rate limit', 'quota' or 'too many requests' in its
\* text; an error with only 'resource exhausted' or 'rate_limit_exceeded' in
\* it, which _retry_with_backoff alone takes for a rate limit; another error
QOutcomes == {"ok", "rate_limit", "resource_exhausted", "other"}

\* what the upstream may answer to optimized_generate_content: the above,
\* "ok" a text of ten characters or more, and a text that has fewer than ten
\* characters once stripped; an empty text makes make_request raise, which
\* is another error
GenOutcomes == QOutcomes \cup {"short"}

\* func() returns a text
Answered(o) == o \in {"ok", "short"}

\* random.uniform(0.1, 0.5), in tenths
JitterTenths == {1, 5}

\* the locals of one _retry_with_backoff call; calls counts the runs of
\* func(), seen keeps the kinds of failure the call has met so far, started
\* is the time on the clock at which func() was last entered
QIdle == [pc |-> "idle", attempt |-> 0, max_retries |-> 1, calls |-> 0,
          err |-> "none", res |-> "none", seen |-> {}, started |-> Epoch]

\* [t for t in self.request_times if now - t < 60]
CleanTimes(s, t) == SelectSeq(s, LAMBDA x : t - x < MinuteWindow)

\* APIUsageMonitor.__init__
NoUsage == [total_requests |-> 0, rate_limit_hits |-> 0,
            requests_per_minute |-> <<>>]

\* _cleanup_old_data at time t
CleanupOldData(s, t) == SelectSeq(s, LAMBDA x : t - x < MinuteWindow)

\* usage_monitor.log_request(..., rate_limited) at time t
LogRequest(u, t, rate_limited) ==
  [total_requests |-> u.total_requests + 1,
   rate_limit_hits |-> IF rate_limited THEN u.rate_limit_hits + 1
                       ELSE u.rate_limit_hits,
   requests_per_minute |-> CleanupOldData(Append(u.requests_per_minute, t), t)]

\* a wait for the window of no length
WindowWaitNone(nw, oldest) == 0

\* wait_time = 60 - (now - oldest_request) + 1
WindowWait(nw, oldest) == MinuteWindow - (nw - oldest) + 1

\* execute_request up to func(): the sleeps it makes and what it leaves.
\* `at` is time.time(), `nw` the local variable now, which the sleep for the
\* breaker does not refresh.
ExecuteRequest ==
  LET pause == ShouldPauseRequests(now)
      at1 == now + pause
      adaptive == GetRecommendedDelay(at1)
      effective_delay == Max2(min_delay * Milli, adaptive)
      breaker_wait == IF circuit_breaker_open_until > at1
                      THEN circuit_breaker_open_until - at1 ELSE 0
      at2 == at1 + breaker_wait
      times1 == CleanTimes(request_times, at1)
      time_since_last == at1 - last_request_time
      delayed == time_since_last * Milli < effective_delay
      sleep_time == (effective_delay - time_since_last * Milli) \div Milli
      at3 == IF delayed THEN at2 + sleep_time ELSE at2
      nw3 == IF delayed THEN at3 ELSE at1
      full == Len(times1) >= queue_max
      wait_time == WindowWait(nw3, times1[1])
      at4 == IF full THEN at3 + wait_time ELSE at3
      nw4 == IF full THEN at4 ELSE nw3
  IN IF full /\ wait_time < 0
     THEN \* time.sleep of a negative length raises ValueError
          [raised |-> TRUE, at |-> at3, nw |-> nw3, times |-> times1]
     ELSE [raised |-> FALSE, at |-> at4, nw |-> nw4,
           times |-> IF full THEN CleanTimes(times1, nw4) ELSE times1]

\* a queue that takes every failure for a rate limit
QueueTakesAll(o) == o \notin {"ok", "short"}

\* the terms execute_request takes for a rate limit
QueueRateLimitText(o) == o = "rate_limit"

\* the terms _retry_with_backoff takes for a rate limit
RetryRateLimitText(o) == o \in {"rate_limit", "resource_exhausted"}

\* what _retry_with_backoff takes the error o for
ErrorShape(o) == IF RetryRateLimitText(o) THEN "shaped" ELSE "other"

\* _retry_with_backoff(func, max_retries = n) is called
RetryBegin(n) ==
  /\ impl = "RateLimitedQueue"
  /\ qt.pc = "idle"
  /\ calls_left > 0
  /\ calls_left' = calls_left - 1
  /\ qt' = [QIdle EXCEPT !.pc = "attempt", !.max_retries = n,
                         !.started = qt.started]
  /\ UNCHANGED <<usage, batchVars, parseVars, analysisVars, recoveryVars,
                 events_left, attempts_left,
                 request_times,
                 last_request_time, circuit_breaker_open_until,
                 queue_failures, queue_max, impl, now, lock, windows,
                 rlBreaker, rlStats, slBreaker, th, callers, ticks_left,
                 admin_left>>

\* self.rate_queue.execute_request(func), the upstream answering o
RetryAttempt(o) ==
  /\ impl = "RateLimitedQueue"
  /\ qt.pc = "attempt"
  /\ recovery_lock = "free"
  /\ attempts_left > 0
  /\ attempts_left' = attempts_left - 1
  /\ LET x == ExecuteRequest
     IN /\ now' = x.at
        \* the result goes back through _retry_with_backoff to its caller,
        \* which raises on a short text and logs the request otherwise, with
        \* rate_limited as it was set before the call: False
        /\ usage' = IF ~x.raised /\ o = "ok"
                     THEN LogRequest(usage, x.at, FALSE) ELSE usage
        /\ IF x.raised
           THEN /\ request_times' = x.times
                /\ qt' = [qt EXCEPT !.pc = "handle", !.err = "value_error",
                                    !.seen = @ \cup {"internal"}]
                /\ UNCHANGED <<last_request_time, queue_failures,
                               circuit_breaker_open_until, recoveryVars>>
           ELSE /\ request_times' = Append(x.times, x.nw)
                /\ last_request_time' = x.nw
                /\ IF Answered(o)
                   THEN /\ queue_failures' = 0
                        /\ RecordSuccess
                        /\ UNCHANGED circuit_breaker_open_until
                        /\ qt' = [qt EXCEPT !.pc = "idle",
                                            !.res = IF o = "ok" THEN "ok"
                                                    ELSE "short_response",
                                            !.started = x.at,
                                            !.calls = @ + 1]
                   ELSE /\ queue_failures' = queue_failures + 1
                        /\ IF QueueRateLimitText(o)
                           THEN RecordRateLimit(x.at)
                           ELSE UNCHANGED recoveryVars
                        /\ circuit_breaker_open_until' =
                              IF queue_failures + 1 >= QueueBreakerFailures
                              THEN x.nw + QueueBreakerTimeout
                              ELSE circuit_breaker_open_until
                        /\ qt' = [qt EXCEPT !.pc = "handle", !.err = o,
                                            !.started = x.at,
                                            !.calls = @ + 1,
                                            !.seen = @ \cup {ErrorShape(o)}]
  /\ UNCHANGED <<batchVars, parseVars, analysisVars, events_left, queue_max,
                 impl, lock, windows,
                 rlBreaker, rlStats, slBreaker, th, env>>

\* a loop that takes attempt n - 1 for one that has a retry left
RetryLeftLate(a, n) == a < n

\* if attempt < max_retries - 1
RetryLeft(a, n) == a < n - 1

\* min(base_delay * (2 ** attempt), max_delay) plus the jitter
RetryBackoff(a, j) ==
  (Min2(retry_base_delay * Pow2(a), retry_max_delay) * (10 + j)) \div 10

\* if attempt < 2
RetriesOther(a) == a < OtherErrorAttempts

\* the except branch of _retry_with_backoff, with jitter j; what it raises
\* passes through the caller's except block, which raises it again before
\* usage_monitor.log_request is reached
RetryHandle(j) ==
  /\ impl = "RateLimitedQueue"
  /\ qt.pc = "handle"
  /\ IF RetryRateLimitText(qt.err)
     THEN IF RetryLeft(qt.attempt, qt.max_retries)
          THEN /\ now' = now + RetryBackoff(qt.attempt, j)
               /\ qt' = [qt EXCEPT !.pc = "attempt", !.attempt = @ + 1]
          ELSE \* raise Exception("Persistent rate limiting after ...")
               /\ now' = now
               /\ qt' = [qt EXCEPT !.pc = "idle", !.res = "persistent"]
     ELSE IF RetriesOther(qt.attempt)
          THEN /\ now' = now + OtherErrorDelay
               /\ qt' = IF qt.attempt + 1 < qt.max_retries
                        THEN [qt EXCEPT !.pc = "attempt", !.attempt = @ + 1]
                        ELSE \* the loop ends:
                             \* raise Exception("Max retries (n) exceeded")
                             [qt EXCEPT !.pc = "idle",
                                        !.res = "max_retries_exceeded"]
          ELSE \* raise e
               /\ now' = now
               /\ qt' = [qt EXCEPT !.pc = "idle", !.res = qt.err]
  /\ UNCHANGED <<usage, batchVars, parseVars, analysisVars, recoveryVars,
                 events_left, attempts_left,
                 request_times,
                 last_request_time, circuit_breaker_open_until,
                 queue_failures, queue_max, impl, lock, windows, rlBreaker,
                 rlStats, slBreaker, th, env>>

\* _parse_batch_response(response_text, num_clauses) is called on its own
ParseCall ==
  /\ num_clauses >= 1
  /\ parse_results = {}
  /\ parse_results' = ParseBatchResponse(response_text, num_clauses)
  /\ UNCHANGED <<monitorVars, limiterVars, batchVars, queueVars, recoveryVars,
                 analysisVars, events_left, attempts_left, response_text,
                 num_clauses>>

QueueNext ==
  /\ \/ \E n \in 1..(MaxRetries + 1) : RetryBegin(n)
     \/ \E o \in QOutcomes : RetryAttempt(o)
     \/ \E j \in JitterTenths : RetryHandle(j)
  /\ UNCHANGED twin

(***************************************************************************)
(* RateLimitedQueue.execute_request, called by several threads             *)
(***************************************************************************)
\* a lock that nobody holds while func() runs
HeldByNobody(t) == 0

\* with self.lock: the lock as it is while thread t runs the body
HeldBy(t) == t

\* thread t calls execute_request(func), a single request or the request of
\* a batch, and comes to `with self.lock`
SharedExecute(t) ==
  /\ impl = "RateLimitedQueue"
  /\ th[t].pc = "idle"
  /\ calls_left > 0
  /\ calls_left' = calls_left - 1
  /\ th' = Goto(t, "q_lock")
  /\ UNCHANGED <<batchVars, optimizerVars, impl, now, lock, windows,
                 rlBreaker, rlStats, slBreaker, callers, ticks_left,
                 admin_left>>

\* thread t takes the lock and runs the body up to func(): the sleeps, the
\* window, request_times.append(now) and last_request_time = now
SharedAdmit(t) ==
  /\ impl = "RateLimitedQueue"
  /\ th[t].pc = "q_lock"
  /\ lock = 0
  /\ recovery_lock = "free"
  /\ LET x == ExecuteRequest
     IN /\ now' = x.at
        /\ IF x.raised
           THEN /\ request_times' = x.times
                /\ lock' = 0
                /\ th' = Return(t, "value_error")
                /\ UNCHANGED last_request_time
           ELSE /\ request_times' = Append(x.times, x.nw)
                /\ last_request_time' = x.nw
                /\ lock' = HeldBy(t)
                /\ th' = [th EXCEPT ![t].pc = "q_func", ![t].tmp = x.nw]
  /\ UNCHANGED <<batchVars, parseVars, analysisVars, monitorVars,
                 recoveryVars, events_left, attempts_left,
                 circuit_breaker_open_until, queue_failures, queue_max, qt,
                 impl, windows, rlBreaker, rlStats, slBreaker, env>>

\* func() of thread t ends with o: the bookkeeping of the try statement, and
\* the lock is given up as the with block is left
SharedReturn(t, o) ==
  /\ impl = "RateLimitedQueue"
  /\ th[t].pc = "q_func"
  /\ recovery_lock = "free"
  /\ IF o = "ok"
     THEN /\ queue_failures' = 0
          /\ RecordSuccess
          /\ UNCHANGED circuit_breaker_open_until
     ELSE /\ queue_failures' = queue_failures + 1
          /\ IF QueueRateLimitText(o)
             THEN RecordRateLimit(now)
             ELSE UNCHANGED recoveryVars
          /\ circuit_breaker_open_until' =
                IF queue_failures + 1 >= QueueBreakerFailures
                THEN th[t].tmp + QueueBreakerTimeout
                ELSE circuit_breaker_open_until
  /\ lock' = 0
  /\ th' = Return(t, o)
  /\ UNCHANGED <<batchVars, parseVars, analysisVars, monitorVars,
                 events_left, attempts_left, request_times,
                 last_request_time, queue_max, qt, impl, now, windows,
                 rlBreaker, rlStats, slBreaker, env>>

SharedNext ==
  \/ \E t \in Threads : SharedExecute(t)
  \/ \E t \in Threads : SharedAdmit(t)
  \/ \E t \in Threads, o \in QOutcomes : SharedReturn(t, o)
  \/ \E d \in TickSteps : Tick(d)

(***************************************************************************)
(* Specifications                                                          *)
(***************************************************************************)
InitFields ==
  /\ now = 0
  /\ lock = 0
  /\ minute_requests = <<>> /\ daily_requests = <<>>
  /\ circuit_breaker_failures = 0 /\ circuit_breaker_reset_time = NoTime
  /\ total_requests = 0 /\ rate_limited_count = 0
  /\ successful_requests = 0 /\ failed_requests = 0
  /\ circuit_breaker_open = FALSE /\ circuit_breaker_open_time = NoTime
  /\ consecutive_failures = 0
  /\ th = [t \in Threads |-> IdleLocals]

\* RateLimitedQueue.__init__ and IntelligentRateLimitRecovery.__init__
InitQueue ==
  /\ request_times = <<>>
  /\ last_request_time = Epoch
  /\ circuit_breaker_open_until = Epoch
  /\ queue_failures = 0
  /\ qt = QIdle
  /\ rate_limit_events = <<>>
  /\ adaptive_delay = InitialAdaptiveDelay
  /\ consecutive_successes = 0
  /\ recovery_failures = 0

\* no second run is set beside the run
TwinOff == [run |-> 0, script |-> <<>>, trail |-> <<>>, pos |-> 0,
            first |-> NoUsage]

\* the objects of the optimizer as constructed, one run
InitOptimizer ==
  /\ InitQueue
  /\ usage = NoUsage
  /\ twin = TwinOff

\* the limiter classes, and the queue behind _retry_with_backoff
Limiters == {"RateLimiter", "ServerlessRateLimiter"}

\* no batch analysis is called
\* _parse_batch_response is not called on its own, and nobody asks the
\* recovery object for its analysis
NoParse ==
  /\ response_text = <<>>
  /\ num_clauses = 0
  /\ parse_results = {}
  /\ recovery_lock = "free"
  /\ rc = [who \in PauseCallers |-> "done"]

NoBatch ==
  /\ batch_queue = <<>>
  /\ clauses = [c \in BCallers |-> <<>>]
  /\ bt = [c \in BCallers |-> [BIdle EXCEPT !.pc = "done"]]

\* one caller thread, and the status and reset endpoints
Init ==
  /\ InitFields
  /\ NoBatch
  /\ InitOptimizer
  /\ NoParse
  /\ \/ impl \in Limiters /\ queue_max = QueueShipped /\ attempts_left = 0
     \/ /\ impl = "RateLimitedQueue"
        /\ queue_max \in QueueSizes
        /\ attempts_left = MaxAttempts
  /\ events_left = 0
  /\ callers = {1}
  /\ calls_left = MaxCalls
  /\ ticks_left = MaxTicks
  /\ admin_left = MaxAdmin

\* two caller threads
InitConc ==
  /\ InitFields
  /\ NoBatch
  /\ InitOptimizer
  /\ NoParse
  /\ impl \in Limiters
  /\ queue_max = QueueShipped
  /\ events_left = 0
  /\ attempts_left = 0
  /\ callers = Threads
  /\ calls_left = ConcCalls
  /\ ticks_left = ConcTicks
  /\ admin_left = 0

Next ==
  \/ RLCallerNext
  \/ SLCallerNext
  \/ QueueNext
  \/ RLGetStatistics
  \/ RLResetStatistics
  \/ SLGetStatistics
  \/ SLResetStatistics
  \/ \E d \in TickSteps : Tick(d)
  \/ AdvanceToWake

NextConc ==
  \/ RLCallerNext
  \/ SLCallerNext
  \/ \E d \in TickSteps : Tick(d)
  \/ AdvanceToWake

Spec == Init /\ [][Next]_vars

SpecConc == InitConc /\ [][NextConc]_vars

\* batch analysis: each caller is given a clause list; the limiters rest
InitBatch ==
  /\ InitFields
  /\ InitOptimizer
  /\ NoParse
  /\ impl = "RateLimiter"
  /\ queue_max = QueueShipped
  /\ events_left = 0
  /\ attempts_left = 0
  /\ callers = {}
  /\ calls_left = 0 /\ ticks_left = 0 /\ admin_left = 0
  /\ batch_queue = <<>>
  /\ clauses \in [BCallers -> ClauseLists(MaxClauses)]
  /\ \A c \in BCallers \ {1} : clauses[c] = <<>>
  /\ bt = [c \in BCallers |->
             IF c = 1 THEN BIdle ELSE [BIdle EXCEPT !.pc = "absent"]]

\* one thread calls enhanced_batch_analyze_clauses, the others make no call
SpecBatch == InitBatch /\ [][BatchNext]_vars

\* the caller's thread keeps running
FairSpecBatch == SpecBatch /\ WF_vars(BatchNext)

\* every thread calls enhanced_batch_analyze_clauses, at the same time
InitBatchConc ==
  /\ InitFields
  /\ InitOptimizer
  /\ NoParse
  /\ impl = "RateLimiter"
  /\ queue_max = QueueShipped
  /\ events_left = 0
  /\ attempts_left = 0
  /\ callers = {}
  /\ calls_left = 0 /\ ticks_left = 0 /\ admin_left = 0
  /\ batch_queue = <<>>
  /\ clauses \in [BCallers -> ClauseLists(MaxConcClauses)]
  /\ bt = [c \in BCallers |-> BIdle]

BatchConcNext ==
  \/ \E c \in BCallers : BStart(c)
  \/ \E c \in BCallers : BGetNext(c)
  \/ \E c \in BCallers, r \in Texts(max_batch_size, MaxConcText) :
        BBatchDone(c, r)
  \/ \E c \in BCallers : BBatchFailed(c)

SpecBatchConc == InitBatchConc /\ [][BatchConcNext]_vars

\* the recovery object alone: any sequence of record_rate_limit and
\* record_success
InitRecovery ==
  /\ InitFields
  /\ NoBatch
  /\ InitOptimizer
  /\ NoParse
  /\ impl = "RateLimitedQueue"
  /\ queue_max = QueueShipped
  /\ events_left = MaxEvents
  /\ attempts_left = 0
  /\ callers = {}
  /\ calls_left = 0 /\ ticks_left = 0 /\ admin_left = 0

SpecRecovery == InitRecovery /\ [][RecoveryNext]_vars

\* _parse_batch_response alone, on every text and every number of clauses
InitParse ==
  /\ InitFields
  /\ NoBatch
  /\ InitOptimizer
  /\ impl = "RateLimitedQueue"
  /\ queue_max = QueueShipped
  /\ events_left = 0
  /\ attempts_left = 0
  /\ callers = {}
  /\ calls_left = 0 /\ ticks_left = 0 /\ admin_left = 0
  /\ num_clauses \in 1..MaxParse
  /\ response_text \in Texts(MaxParse, MaxText)
  /\ parse_results = {}
  /\ recovery_lock = "free"
  /\ rc = [who \in PauseCallers |-> "done"]

SpecParse == InitParse /\ [][ParseCall]_vars

\* the recovery object with its record methods called, one thread in
\* execute_request asking should_pause_requests, and one thread asking
\* get_rate_limit_analysis
InitAnalysis ==
  /\ InitFields
  /\ NoBatch
  /\ InitOptimizer
  /\ response_text = <<>> /\ num_clauses = 0 /\ parse_results = {}
  /\ recovery_lock = "free"
  /\ rc = [who \in PauseCallers |-> "idle"]
  /\ impl = "RateLimitedQueue"
  /\ queue_max = QueueShipped
  /\ events_left = MaxEvents
  /\ attempts_left = 0
  /\ callers = {}
  /\ calls_left = 0 /\ ticks_left = 0 /\ admin_left = 0

\* every thread that can take a step takes it in the end
FairSpecAnalysis ==
  InitAnalysis /\ [][AnalysisNext]_vars /\ WF_vars(AnalysisNext)
     /\ WF_vars(AnalysisCall)
     /\ \A who \in PauseCallers :
           WF_vars(PauseCall(who) \/ PauseAcquire(who) \/ PauseReturn(who))

\* ---------------------------------------------------------------------
\* Two runs of the queue behind _retry_with_backoff, given the same calls
\* and the same upstream outcomes, the second starting from other contents
\* of usage_monitor than the first.

\* what the admission, delay, pause, retry and breaker decisions are taken
\* from and show in: the clock, the queue, the recovery object
Control == <<now, queueVars, recoveryVars>>

\* contents of usage_monitor.usage_stats a run may start from
UsageContents ==
  {NoUsage,
   [total_requests |-> 1, rate_limit_hits |-> 0,
    requests_per_minute |-> <<-5>>],
   [total_requests |-> 7, rate_limit_hits |-> 0,
    requests_per_minute |-> <<>>]}

\* the calls made and the outcomes given to a run
TwinInputs ==
  ({"begin"} \X (1..(MaxRetries + 1)))
     \cup ({"attempt"} \X QOutcomes)
     \cup ({"handle"} \X JitterTenths)

\* the step of the queue that the input i stands for
TwinAct(i) ==
  \/ i[1] = "begin" /\ RetryBegin(i[2])
  \/ i[1] = "attempt" /\ RetryAttempt(i[2])
  \/ i[1] = "handle" /\ RetryHandle(i[2])

InitTwin ==
  /\ InitFields
  /\ NoBatch
  /\ InitQueue
  /\ NoParse
  /\ impl = "RateLimitedQueue"
  /\ queue_max = QueueShipped
  /\ events_left = 0
  /\ attempts_left = MaxAttempts
  /\ callers = {}
  /\ calls_left = TwinCalls /\ ticks_left = 0 /\ admin_left = 0
  /\ usage \in UsageContents
  /\ twin = [TwinOff EXCEPT !.run = 1, !.first = usage]

\* the first run takes a step; its input and what it led to are kept
TwinFirst(i) ==
  /\ twin.run = 1
  /\ TwinAct(i)
  /\ twin' = [twin EXCEPT !.script = Append(@, i),
                          !.trail = Append(@, Control')]

\* the process is started again with other contents of usage_monitor
TwinRestart(u) ==
  /\ twin.run = 1
  /\ qt.pc = "idle"
  /\ twin.script # <<>>
  /\ u # twin.first
  /\ usage' = u
  /\ twin' = [twin EXCEPT !.run = 2]
  /\ now' = 0
  /\ request_times' = <<>>
  /\ last_request_time' = Epoch
  /\ circuit_breaker_open_until' = Epoch
  /\ queue_failures' = 0
  /\ qt' = QIdle
  /\ rate_limit_events' = <<>>
  /\ adaptive_delay' = InitialAdaptiveDelay
  /\ consecutive_successes' = 0
  /\ recovery_failures' = 0
  /\ calls_left' = TwinCalls
  /\ attempts_left' = MaxAttempts
  /\ UNCHANGED <<batchVars, parseVars, analysisVars, events_left, queue_max,
                 impl, lock, windows, rlBreaker, rlStats, slBreaker, th,
                 callers, ticks_left, admin_left>>

\* the second run is given the next input of the first
TwinSecond ==
  /\ twin.run = 2
  /\ twin.pos < Len(twin.script)
  /\ TwinAct(twin.script[twin.pos + 1])
  /\ twin' = [twin EXCEPT !.pos = @ + 1]

TwinNext ==
  \/ \E i \in TwinInputs : TwinFirst(i)
  \/ \E u \in UsageContents : TwinRestart(u)
  \/ TwinSecond

SpecTwin == InitTwin /\ [][TwinNext]_vars

\* ---------------------------------------------------------------------
\* The shipped queue behind _retry_with_backoff on its own, one caller, the
\* clock moving between its calls.
\* the shipped queue with two threads calling execute_request
InitShared ==
  /\ InitFields /\ NoBatch /\ InitOptimizer /\ NoParse
  /\ impl = "RateLimitedQueue" /\ queue_max = QueueShipped
  /\ events_left = 0 /\ attempts_left = 0
  /\ callers = Threads
  /\ calls_left = SharedCalls /\ ticks_left = SharedTicks /\ admin_left = 0

SpecShared == InitShared /\ [][SharedNext]_vars

\* RateLimiter with one caller and a clock that crosses midnight in steps
\* shorter than a day
InitDay ==
  /\ InitFields /\ NoBatch /\ InitOptimizer /\ NoParse
  /\ impl = "RateLimiter" /\ queue_max = QueueShipped
  /\ events_left = 0 /\ attempts_left = 0
  /\ callers = {1}
  /\ calls_left = MaxCalls /\ ticks_left = MaxTicks /\ admin_left = 0

DayNext ==
  \/ RLCallerNext
  \/ \E d \in DaySteps : Tick(d)
  \/ AdvanceToWake

SpecDay == InitDay /\ [][DayNext]_vars

InitQueueRun ==
  /\ InitFields
  /\ NoBatch
  /\ InitOptimizer
  /\ NoParse
  /\ impl = "RateLimitedQueue"
  /\ queue_max = QueueShipped
  /\ events_left = 0
  /\ attempts_left = QueueAttempts
  /\ callers = {}
  /\ calls_left = QueueCalls /\ ticks_left = QueueTicks /\ admin_left = 0

\* optimized_generate_content called time after time
GenerateNext ==
  /\ \/ \E n \in 1..(MaxRetries + 1) : RetryBegin(n)
     \/ \E o \in GenOutcomes : RetryAttempt(o)
     \/ \E j \in JitterTenths : RetryHandle(j)
  /\ UNCHANGED twin

QueueRunNext ==
  \/ GenerateNext
  \/ \E d \in TickSteps : Tick(d)

SpecQueue == InitQueueRun /\ [][QueueRunNext]_vars

(***************************************************************************)
(* Properties                                                              *)
(***************************************************************************)
\* the records of the minute window that are younger than 60 seconds
YoungRecords == SelectSeq(minute_requests, LAMBDA x : now - x < MinuteWindow)

\* the records of the day window made today
TodayRecords == SelectSeq(daily_requests,
                          LAMBDA x : DateOf(x) = DateOf(now))

\* the upstream function is invoked in this step
RLInvokes == \E t \in Threads, o \in Outcomes : RLCall(t, o)
SLInvokes == \E t \in Threads, o \in Outcomes : SLCall(t, o)

\* C1: with several threads calling execute_with_rate_limit on one shared
\* limiter, admission is atomic: the minute window never holds more than
\* max_requests_per_minute records younger than 60 seconds.
C1_AdmissionAtomic == Len(YoungRecords) <= max_requests_per_minute

\* the breaker of ServerlessRateLimiter is open: the flag is set and the
\* timeout has not elapsed since it opened
SLBreakerOpenNow ==
  /\ circuit_breaker_open
  /\ circuit_breaker_open_time # NoTime
  /\ now - circuit_breaker_open_time <= CIRCUIT_BREAKER_TIMEOUT

\* the breaker of RateLimiter is open: the threshold is reached and the reset
\* time, if the breaker has set one, is not reached
RLBreakerOpenNow ==
  /\ circuit_breaker_failures >= circuit_breaker_threshold
  /\ (circuit_breaker_reset_time = NoTime \/ now < circuit_breaker_reset_time)

\* a call of thread t ends in this step with r
EndsWith(t, r) == th[t].pc # "idle" /\ th'[t].pc = "idle" /\ th'[t].res = r

C3_DailyHardStop ==
  [][/\ RLInvokes => Len(TodayRecords) < max_requests_per_day
     /\ \A t \in Threads :
          (RLWaitIfNeeded(t) /\ Len(TodayRecords) >= max_requests_per_day)
             => th'[t].err = "daily"]_vars

\* C4: in RateLimiter.execute_with_rate_limit the daily-limit error is fatal:
\* the call ends on the attempt that hit the daily limit, with no backoff
\* sleep and no further attempt.
C4_DailyFatal ==
  \A t \in Threads :
     th[t].err = "daily"
        => th[t].pc \in {"count_read", "count_write", "rec_fail", "idle"}

\* C5: for every non-empty list of n clauses enhanced_batch_analyze_clauses
\* returns exactly n entries, one with its own key per input clause.
C5_OneEntryPerClause ==
  \A c \in BCallers :
     (bt[c].pc = "done" /\ clauses[c] # <<>>)
        => /\ Cardinality(bt[c].all_results) = Len(clauses[c])
           /\ Cardinality(Keys(bt[c].all_results)) = Len(clauses[c])

\* C6: every call of enhanced_batch_analyze_clauses terminates, for every
\* behaviour of the upstream.
C6_Terminates == <>(\A c \in BCallers : bt[c].pc \in {"done", "absent"})

\* C7: under any interleaving of concurrent callers of
\* ServerlessRateLimiter.execute_with_rate_limit the upstream function is
\* never invoked while the breaker is open.
C7_OpenFencing == [][SLInvokes => ~SLBreakerOpenNow]_vars

\* C8, as claimed: in every reachable state of ServerlessRateLimiter
\* circuit_breaker_open is set if and only if consecutive_failures has
\* reached circuit_breaker_failures and the timeout has not elapsed.
C8_OpenIff ==
  impl = "ServerlessRateLimiter"
     => (circuit_breaker_open <=>
           /\ consecutive_failures >= CIRCUIT_BREAKER_FAILURES
           /\ circuit_breaker_open_time # NoTime
           /\ now - circuit_breaker_open_time <= CIRCUIT_BREAKER_TIMEOUT)

\* a breaker check has cleared the flag and not yet zeroed the counter
MidReset == \E t \in Threads :
               th[t].pc \in {"sl_reset_time", "sl_reset_failures"}

\* C8, amended: in every reachable state of ServerlessRateLimiter in which no
\* breaker check is part-way through its reset, consecutive_failures having
\* reached circuit_breaker_failures implies that circuit_breaker_open is set.
C8_ThresholdImpliesOpen ==
  (impl = "ServerlessRateLimiter" /\ ~MidReset
     /\ consecutive_failures >= CIRCUIT_BREAKER_FAILURES) => circuit_breaker_open

\* C8, witness: the threshold is reached and the flag is set
C8_Witness ==
  /\ impl = "ServerlessRateLimiter"
  /\ consecutive_failures >= CIRCUIT_BREAKER_FAILURES
  /\ circuit_breaker_open
  /\ ~MidReset

\* a failure is recorded by thread t in this step
RLRecordsFailure(t) == RLRecordFailure(t) \/ RLRecordOther(t)

\* the next breaker check of RateLimiter, made at time t, finds it open
RLNextCheckOpen(f, rt, t) ==
  f >= circuit_breaker_threshold /\ (rt = NoTime \/ t < rt)

C26_EveryCrossingOpens ==
  [][\A t \in Threads :
       (/\ RLRecordsFailure(t)
        /\ circuit_breaker_failures < circuit_breaker_threshold
        /\ circuit_breaker_failures' >= circuit_breaker_threshold)
          => RLNextCheckOpen(circuit_breaker_failures',
                             circuit_breaker_reset_time', now)]_vars

\* C27: a batch whose submission fails is put back on the queue once; when
\* its second submission fails too it is not put back, every clause of it
\* has an entry in the caller's results, and no batch that was put back twice
\* is ever taken for a third submission.
C27_RequeuedOnce ==
  [][\A c \in BCallers :
       /\ (BBatchFailed(c) /\ bt[c].cur.requeued >= 1)
            => /\ batch_queue' = batch_queue
               /\ \A i \in 1..Len(bt[c].cur.clauses) :
                     ClauseKey(i) \in Keys(bt'[c].all_results)
       /\ (BGetNext(c) /\ batch_queue # <<>>)
            => Head(batch_queue).requeued <= 1]_vars

\* C28: the handling of a call that RateLimiter rejected for the daily limit
\* adds no timestamp to the minute or day window and changes neither
\* circuit_breaker_failures nor total_requests, failed_requests and
\* rate_limited_count.
C28_DailyRejectionLeavesState ==
  [][\A t \in Threads :
       (/\ th[t].err = "daily"
        /\ RLCountRead(t) \/ RLCountWrite(t) \/ RLRecordFailure(t))
          => UNCHANGED <<minute_requests, daily_requests,
                         circuit_breaker_failures, total_requests,
                         failed_requests, rate_limited_count>>]_vars

\* C29: RateLimiter.get_statistics leaves circuit_breaker_failures and
\* circuit_breaker_reset_time unchanged.
C29_StatisticsReadOnly ==
  [][RLGetStatistics
       => UNCHANGED <<circuit_breaker_failures,
                      circuit_breaker_reset_time>>]_vars

\* C30: during one _retry_with_backoff call should_pause_requests causes a
\* sleep only before the first attempt: a call of execute_request made for a
\* retry attempt is never told to pause.
C30_PauseOnlyBeforeFirstAttempt ==
  [][((\E o \in QOutcomes : RetryAttempt(o)) /\ qt.attempt >= 1)
        => ShouldPauseRequests(now) = 0]_vars

\* C22: the contents of usage_monitor never influence control decisions: of
\* two runs given the same calls and the same upstream outcomes but started
\* from different usage_monitor contents, the second goes, step for step,
\* through the clock readings, queue states and recovery states of the
\* first, and so takes the same admission, delay, pause, retry and breaker
\* decisions.
C22_UsageDoesNotSteer ==
  (twin.run = 2 /\ twin.pos > 0) => Control = twin.trail[twin.pos]

\* C22, witness: the second run has been given all the inputs of the first,
\* which held a retry after a failure, a breaker that opened, a sleep and a
\* logged request, and the two runs end with different usage_monitor contents
C22_Witness ==
  /\ twin.run = 2
  /\ twin.pos = Len(twin.script)
  /\ usage.total_requests > twin.first.total_requests + 1
  /\ qt.attempt >= 1 /\ qt.res = "ok"
  /\ circuit_breaker_open_until > 0
  /\ now > 0

\* the step is a breaker check of RateLimiter that finds the reset time reached
RLCheckFindsElapsed ==
  /\ RLGetStatistics \/ \E t \in Threads : RLWaitIfNeeded(t)
  /\ circuit_breaker_reset_time # NoTime
  /\ now >= circuit_breaker_reset_time

\* the step records a success
RLSuccessRecorded == \E t \in Threads : RLRecordSuccess(t)

\* C10, as claimed: circuit_breaker_failures of RateLimiter is lowered only
\* when a success is recorded or a breaker check finds the reset time
\* reached, and recording a failure raises it by one.
C10_ResetOnlyBySuccessOrTimeout ==
  [][/\ circuit_breaker_failures' < circuit_breaker_failures
          => (RLSuccessRecorded \/ RLCheckFindsElapsed)
     /\ \A t \in Threads :
          RLRecordsFailure(t)
             => circuit_breaker_failures' = circuit_breaker_failures + 1]_vars

\* C10, amended: circuit_breaker_failures of RateLimiter is lowered only when
\* a success is recorded, when a breaker check finds the reset time reached,
\* or when reset_statistics is called; recording a failure raises it by one.
C10_ResetAlsoByResetStatistics ==
  [][/\ circuit_breaker_failures' < circuit_breaker_failures
          => (RLSuccessRecorded \/ RLCheckFindsElapsed \/ RLResetStatistics)
     /\ \A t \in Threads :
          RLRecordsFailure(t)
             => circuit_breaker_failures' = circuit_breaker_failures + 1]_vars

\* C10, witness: the last call ended in a recorded failure, and
\* reset_statistics has put the count and the statistics back to 0
C10_Witness ==
  /\ impl = "RateLimiter"
  /\ \E t \in Threads : th[t].pc = "idle" /\ th[t].res \in {"error", "exhausted"}
  /\ daily_requests # <<>>
  /\ total_requests = 0
  /\ circuit_breaker_failures = 0

\* the clauses of the queued batches, in queue order
RECURSIVE QueuedClauses(_)
QueuedClauses(q) ==
  IF q = <<>> THEN <<>> ELSE Head(q).clauses \o QueuedClauses(Tail(q))

\* sum of len(clause) // 4 over a batch
RECURSIVE BatchTokens(_)
BatchTokens(b) ==
  IF b = <<>> THEN 0 ELSE (Head(b) \div 4) + BatchTokens(Tail(b))

\* add_to_batch_queue has just queued the batches of caller c
Queued(c) == bt[c].pc = "loop" /\ bt[c].batch_count = 0 /\ bt[c].cur = <<>>
                /\ bt[c].all_results = {}
                /\ \A i \in 1..Len(batch_queue) : batch_queue[i].owner = c

\* C11: for every input list the batches of _split_into_batches, put end to
\* end in order, are exactly the input list: when add_to_batch_queue queues
\* them, the queue grows by batches whose concatenation is the clause list,
\* none of them empty.
C11_SplitPreservesList ==
  [][\A c \in BCallers :
       BStart(c) =>
         /\ QueuedClauses(batch_queue') = QueuedClauses(batch_queue) \o clauses[c]
         /\ \A i \in 1..Len(batch_queue') : batch_queue'[i].clauses # <<>>]_vars

\* C11, witness: a list of three clauses of different lengths was split into
\* more than one batch
C11_Witness ==
  \E c \in BCallers :
     /\ Queued(c)
     /\ Len(clauses[c]) = 3
     /\ clauses[c][1] # clauses[c][2] /\ clauses[c][2] # clauses[c][3]
     /\ clauses[c][1] # clauses[c][3]
     /\ Len(batch_queue) >= 2

\* C12: no batch of _split_into_batches has more than max_batch_size clauses,
\* and the tokens of a batch exceed max_tokens_per_batch only in a batch of a
\* single clause.
C12_BatchWithinLimits ==
  [][\A c \in BCallers :
       BStart(c) =>
         \A i \in 1..Len(batch_queue') :
            /\ Len(batch_queue'[i].clauses) <= max_batch_size
            /\ \/ BatchTokens(batch_queue'[i].clauses) <= max_tokens_per_batch
               \/ Len(batch_queue'[i].clauses) = 1]_vars

\* C12, witness: the queue holds a full batch and a batch of one clause that
\* alone exceeds the token budget
C12_Witness ==
  \E c \in BCallers :
     /\ Queued(c)
     /\ \E i \in 1..Len(batch_queue) :
           Len(batch_queue[i].clauses) = max_batch_size
     /\ \E i \in 1..Len(batch_queue) :
           /\ Len(batch_queue[i].clauses) = 1
           /\ BatchTokens(batch_queue[i].clauses) > max_tokens_per_batch

\* the records of the queue that are younger than 60 seconds
YoungTimes == CleanTimes(request_times, now)

\* the step is a call of execute_request in which func() is run
QueueInvokes == \E o \in QOutcomes : RetryAttempt(o) /\ qt'.calls = qt.calls + 1

\* C13: in a single-threaded run, when max_requests_per_minute requests were
\* recorded within the last 60 seconds, the next call sleeps before the
\* upstream function runs, for a time greater than zero and at least until
\* the oldest record has left the 60-second window: _wait_if_needed goes to
\* sleep and lets the caller go on only when the sleep is over, and
\* execute_request comes to func(), or raises, only that much later.
C13_FullWindowSleeps ==
  [][/\ \A t \in Threads :
          /\ (RLWaitIfNeeded(t) /\ Len(YoungRecords) >= max_requests_per_minute)
               => /\ th'[t].pc = "wait_sleep"
                  /\ th'[t].wake > now
                  /\ th'[t].wake >= SeqMin(YoungRecords) + MinuteWindow
          /\ RLWaitWake(t) => (now >= th[t].wake /\ th'[t].pc = "call")
     /\ ((\E o \in QOutcomes : RetryAttempt(o)) /\ Len(YoungTimes) >= queue_max)
          => /\ now' > now
             /\ now' >= YoungTimes[1] + MinuteWindow]_vars

\* C13, witness: RateLimiter sleeps for the minute window, which is full
C13_Witness ==
  /\ impl = "RateLimiter"
  /\ Len(YoungRecords) >= max_requests_per_minute
  /\ circuit_breaker_failures < circuit_breaker_threshold
  /\ \E t \in Threads :
        /\ th[t].pc = "wait_sleep"
        /\ th[t].wake = SeqMin(YoungRecords) + MinuteWait

\* ---------------------------------------------------------------------
\* One caller, an upstream that always succeeds: what a call goes through
\* when nothing fails.  Time passes only when the environment lets it.

InitSteady ==
  /\ InitFields
  /\ NoBatch
  /\ InitOptimizer
  /\ NoParse
  /\ impl \in Limiters
  /\ queue_max = QueueShipped
  /\ attempts_left = 0
  /\ events_left = 0
  /\ callers = {1}
  /\ calls_left = MaxCalls
  /\ ticks_left = MaxTicks
  /\ admin_left = 0

NextSteady ==
  \/ \E t \in Threads, r \in 1..MaxRetries : RLBegin(t, r)
  \/ \E t \in Threads : RLWaitIfNeeded(t)
  \/ \E t \in Threads : RLWaitWake(t)
  \/ \E t \in Threads : RLCall(t, "ok")
  \/ \E t \in Threads : RLRecordSuccess(t)
  \/ \E t \in Threads : SLCheckFlag(t)
  \/ \E t \in Threads : SLWaitForRateLimit(t)
  \/ \E t \in Threads : SLWaitWake(t)
  \/ \E t \in Threads : SLStamp(t)
  \/ \E t \in Threads : SLRecord(t)
  \/ \E t \in Threads : SLPaceWake(t)
  \/ \E t \in Threads : SLCall(t, "ok")
  \/ \E t \in Threads : SLSuccess(t)
  \/ \E d \in TickSteps : Tick(d)
  \/ AdvanceToWake

\* a sleep ends when its time has come, a caller that can go on goes on
FairSpecSteady == InitSteady /\ [][NextSteady]_vars /\ WF_vars(NextSteady)

\* no time has passed between the calls but what the calls slept themselves
BackToBack == ticks_left = MaxTicks

\* the number of the call that is being made, counted from 1
CallNumber == MaxCalls - calls_left

\* every call has been made and has returned
AllReturned == calls_left = 0 /\ \A t \in Threads : th[t].pc = "idle"

\* C14: with an upstream that always succeeds and max_requests_per_minute = M,
\* M+1 back-to-back calls of execute_with_rate_limit all eventually return
\* the upstream result (the daily limit aside), and the (M+1)-th call is the
\* first one that is made to sleep for the minute window.
C14_FirstSleepAtCallMPlus1 ==
  /\ [][\A t \in Threads :
          /\ (RLWaitIfNeeded(t) /\ BackToBack
                /\ CallNumber <= max_requests_per_minute + 1)
               => (th'[t].pc = "wait_sleep"
                     <=> CallNumber = max_requests_per_minute + 1)
          /\ (SLWaitForRateLimit(t) /\ BackToBack
                /\ CallNumber <= max_requests_per_minute + 1)
               => (th'[t].pc = "sl_wait_sleep"
                     <=> CallNumber = max_requests_per_minute + 1)
          /\ (th[t].pc # "idle" /\ th'[t].pc = "idle")
               => th'[t].res \in {"ok", "daily"}]_vars
  /\ <>AllReturned

\* C15: after any sequence of record_rate_limit and record_success calls,
\* min_adaptive_delay <= adaptive_delay <= max_adaptive_delay.
C15_DelayClamped ==
  /\ min_adaptive_delay <= adaptive_delay
  /\ adaptive_delay <= max_adaptive_delay

\* C15, witness: failures have driven the delay to the cap
C15_Witness ==
  /\ adaptive_delay = max_adaptive_delay
  /\ recovery_failures >= 2
  /\ IncreaseUncapped(adaptive_delay, recovery_failures + 1) > adaptive_delay

\* C16: a record_rate_limit call never leaves adaptive_delay lower than it
\* was, and a record_success call never raises it and leaves it unchanged as
\* long as consecutive_successes is below 3.
C16_DelayDirections ==
  [][/\ RecRecordRateLimit => adaptive_delay' >= adaptive_delay
     /\ RecRecordSuccess =>
          /\ adaptive_delay' <= adaptive_delay
          /\ consecutive_successes' < SustainedSuccesses
               => adaptive_delay' = adaptive_delay]_vars

\* C16, witness: two successes in a row after a failure, the raised delay
\* still as the failure left it
C16_Witness ==
  /\ consecutive_successes = SustainedSuccesses - 1
  /\ adaptive_delay > InitialAdaptiveDelay
  /\ rate_limit_events # <<>>

\* C17, as stated: every record_success call that brings
\* consecutive_successes to 3 or more makes adaptive_delay strictly smaller
\* and leaves it at or above min_adaptive_delay.
C17_AlwaysStrictlySmaller ==
  [][(RecRecordSuccess /\ consecutive_successes' >= SustainedSuccesses)
       => /\ adaptive_delay' < adaptive_delay
          /\ adaptive_delay' >= min_adaptive_delay]_vars

\* C17: a record_success call that brings consecutive_successes to 3 or more
\* makes adaptive_delay strictly smaller when it was above
\* min_adaptive_delay, by a tenth or down to min_adaptive_delay, and leaves
\* it unchanged when it was at min_adaptive_delay already; it never leaves
\* it below min_adaptive_delay.
C17_SmallerDownToMin ==
  [][(RecRecordSuccess /\ consecutive_successes' >= SustainedSuccesses)
       => /\ adaptive_delay > min_adaptive_delay
               => /\ adaptive_delay' < adaptive_delay
                  /\ adaptive_delay' =
                        Max2((adaptive_delay * 9) \div 10, min_adaptive_delay)
          /\ adaptive_delay = min_adaptive_delay
               => adaptive_delay' = adaptive_delay
          /\ adaptive_delay' >= min_adaptive_delay]_vars

\* the number of decreases that take the delay d down to the minimum
RECURSIVE DecreasesToMin(_)
DecreasesToMin(d) ==
  IF d <= min_adaptive_delay THEN 0
  ELSE 1 + DecreasesToMin(DecreaseAdaptiveDelay(d))

\* C17, witness: sustained success has brought the delay down to the
\* minimum, and one more success has found it there
C17_Witness ==
  /\ adaptive_delay = min_adaptive_delay
  /\ rate_limit_events = <<>>
  /\ consecutive_successes >=
        SustainedSuccesses + DecreasesToMin(InitialAdaptiveDelay)

\* the step ends a _retry_with_backoff call with an exception
RetryRaises == (\E j \in JitterTenths : RetryHandle(j)) /\ qt'.pc = "idle"

\* C18, as stated: when the upstream fails with errors that are not
\* rate-limit-shaped, _retry_with_backoff invokes the upstream function at
\* most twice and then raises the original upstream error unchanged, for
\* every max_retries >= 1.
C18_OtherErrorRetriedOnce ==
  [][/\ (QueueInvokes /\ qt.seen \subseteq {"other"} /\ qt'.err = "other")
          => qt'.calls <= 2
     /\ (RetryRaises /\ qt.seen = {"other"}) => qt'.res = "other"]_vars

\* C19: for no sequence of upstream outcomes is the upstream function
\* invoked more than max_retries times in one _retry_with_backoff call; a
\* call in which every attempt failed with a rate-limit-shaped error sleeps
\* a backoff before each retry, has invoked the upstream function exactly
\* max_retries times when it ends, and ends with the persistent-rate-limit
\* error.  (With the queue as shipped no attempt fails inside
\* execute_request itself.)
C19_RateLimitedAttempts ==
  [][/\ qt'.calls <= qt'.max_retries
     /\ (RetryRaises /\ qt.seen = {"shaped"})
          => /\ qt'.res = "persistent"
             /\ qt.calls = qt.max_retries
     /\ ((\E j \in JitterTenths : RetryHandle(j))
           /\ RetryRateLimitText(qt.err) /\ qt'.pc = "attempt")
          => /\ now' > now
             /\ now' >= now + Min2(retry_base_delay * Pow2(qt.attempt),
                                   retry_max_delay)
     /\ queue_max = QueueShipped => "internal" \notin qt'.seen]_vars

\* C19, witness: a call with max_retries of 2 or more has ended with the
\* persistent-rate-limit error after as many rate-limited invocations
C19_Witness ==
  /\ qt.pc = "idle"
  /\ qt.res = "persistent"
  /\ qt.seen = {"shaped"}
  /\ qt.max_retries >= 2
  /\ qt.calls = qt.max_retries
  /\ queue_max = QueueShipped

\* the entry the dict d holds under the key of clause i
Entry(d, i) == (CHOOSE kv \in d : kv[1] = ClauseKey(i))[2]

\* the piece is a label CLAUSE_k_ANALYSIS: of some clause
IsLabel(piece) == piece[1] = "label"

\* where the labelled block that begins at position at ends: at the next
\* label of any clause, code fence or blank line, or with the text
BlockEnd(r, at) ==
  LET hits == {p \in (at + 1)..Len(r) :
                  IsLabel(r[p]) \/ r[p] \in {Fence, BlankLine}}
  IN IF hits = {} THEN Len(r) + 1
     ELSE CHOOSE p \in hits : \A q \in hits : p <= q

\* the labelled block of clause j in the text r: what follows its label
OwnBlock(r, j) ==
  LET at == Find(r, {Label(j)}, 1)
  IN SubSeq(r, at + 1, BlockEnd(r, at) - 1)

\* C20, as stated: for every response text and every n >= 1,
\* _parse_batch_response(text, n) raises nothing and returns exactly the n
\* keys Clause 1 .. Clause n; a clause whose labelled block is missing or
\* does not parse gets the fallback entry with risk_level Medium, and this
\* never changes the entries of the other clauses: a clause whose own
\* labelled block is a JSON value has the entry with that value, whatever
\* the blocks of the other clauses are.
C20_FallbackPerClause ==
  parse_results # {} =>
    /\ Keys(parse_results) = {ClauseKey(i) : i \in 1..num_clauses}
    /\ \A i \in 1..num_clauses :
          IF Find(response_text, {Label(i)}, 1) # 0
               /\ Len(OwnBlock(response_text, i)) = 1
               /\ IsJson(OwnBlock(response_text, i)[1])
          THEN Entry(parse_results, i)
                 = ParsedEntry(i, OwnBlock(response_text, i)[1])
          ELSE Entry(parse_results, i)
                 \in {FallbackNotFound(i), FallbackNoJson(i)}

\* the risk levels the prompt asks the upstream for
RiskLevels == {"High", "Medium", "Low"}

\* C21: every entry of the mapping returned by batch analysis has an
\* analysis that carries a risk_level, and its value is one of High, Medium,
\* Low, whatever JSON the upstream wrote in that clause's block.
C21_RiskLevelValid ==
  \A c \in BCallers :
     bt[c].pc = "done"
        => \A kv \in bt[c].all_results :
              kv[2].analysis.risk_level \in RiskLevels

\* C23: batch_analyze_clauses called with an empty clause list returns an
\* empty mapping, and does so without queuing a batch, sleeping or invoking
\* the upstream function: the call returns in its first step, with the queue
\* and the clock as they were, and never comes to take or submit a batch.
C23_EmptyListReturnsEmpty ==
  [][\A c \in BCallers :
       /\ (BStart(c) /\ clauses[c] = <<>>)
            => /\ bt'[c].pc = "done"
               /\ bt'[c].all_results = {}
               /\ batch_queue' = batch_queue
               /\ now' = now
       /\ clauses[c] = <<>>
            => (~BGetNext(c) /\ ~BBatchFailed(c)
                  /\ \A r \in Responses : ~BBatchDone(c, r))]_vars

\* C23, witness: a call with the empty list has returned
C23_Witness ==
  \E c \in BCallers :
     /\ clauses[c] = <<>>
     /\ bt[c].pc = "done"
     /\ bt[c].all_results = {}
     /\ bt[c].batch_count = 0

\* C24: get_rate_limit_analysis (and export_analysis_report, which calls
\* it) always returns: a call that has entered it comes to its end, it does
\* not block forever on the recovery lock.
C24_AnalysisReturns ==
  (rc["get_rate_limit_analysis"] = "holding")
     ~> (rc["get_rate_limit_analysis"] = "done")

\* C25: when two threads run enhanced_batch_analyze_clauses at the same
\* time, every batch is consumed by the call that queued it, and the mapping
\* each call returns holds results only for that call's own clauses: a call
\* takes from the queue, and merges the result of, only batches it queued
\* itself.
C25_OwnBatchesOnly ==
  [][\A c \in BCallers :
       /\ (BGetNext(c) /\ batch_queue # <<>>)
            => Head(batch_queue).owner = c
       /\ (\E r \in Texts(max_batch_size, MaxConcText) : BBatchDone(c, r))
            => bt[c].cur.owner = c]_vars

\* func() is run in this step and fails with the error o
UpstreamFails(o) ==
  RetryAttempt(o) /\ qt'.calls = qt.calls + 1 /\ ~Answered(o)

\* C33: every upstream failure that _retry_with_backoff treats as
\* rate-limited is recorded in both places before the retry sleep: the
\* queue's consecutive_failures grows by one, and the recovery object gets
\* one new event and one more consecutive failure.
C33_RateLimitRecordedTwice ==
  [][\A o \in QOutcomes :
       (UpstreamFails(o) /\ RetryRateLimitText(o))
          => /\ queue_failures' = queue_failures + 1
             /\ Len(rate_limit_events') = Len(rate_limit_events) + 1
             /\ recovery_failures' = recovery_failures + 1]_vars

\* C34: an upstream failure that is not rate-limit-shaped adds one to the
\* failure count of the queue's breaker and leaves adaptive_delay, the
\* recovery object's consecutive_failures and consecutive_successes and its
\* list of events unchanged.
C34_OtherFailureLeavesRecovery ==
  [][\A o \in QOutcomes :
       (UpstreamFails(o) /\ ~RetryRateLimitText(o))
          => /\ queue_failures' = queue_failures + 1
             /\ UNCHANGED <<adaptive_delay, recovery_failures,
                            consecutive_successes, rate_limit_events>>]_vars

\* C34, witness: the last attempt failed with an error of another shape,
\* after a rate limit had been recorded
C34_Witness ==
  /\ qt.pc = "handle"
  /\ qt.err = "other"
  /\ qt.seen = {"shaped", "other"}
  /\ recovery_failures >= 1
  /\ rate_limit_events # <<>>

\* C38: every sleep that execute_request computes has a length of zero or
\* more, for every max_requests_per_minute the queue is built with: no call
\* of execute_request fails before func() is run.
C38_SleepsNonNegative ==
  [][\A o \in QOutcomes : RetryAttempt(o) => ~ExecuteRequest.raised]_vars

\* C36: any two consecutive runs of func() made through execute_request
\* start at least max(min_delay, recommended adaptive delay) apart on the
\* clock (the clock of the model counts whole seconds: a gap that is short
\* by less than one second is let pass).
C36_InvocationsSpaced ==
  [][\A o \in GenOutcomes :
       (RetryAttempt(o) /\ qt'.calls = qt.calls + 1 /\ qt.started # Epoch)
          => (now' - qt.started) * Milli
                > Max2(min_delay * Milli,
                       GetRecommendedDelay(now + ShouldPauseRequests(now)))
                  - Milli]_vars

\* the block of clause j as the text lays it out: from its label to the next
\* label of any clause or to the end of the text
LabelledBlock(r, j) ==
  LET at == Find(r, {Label(j)}, 1)
      hits == {p \in (at + 1)..Len(r) : IsLabel(r[p])}
      stop == IF hits = {} THEN Len(r) + 1
              ELSE CHOOSE p \in hits : \A q \in hits : p <= q
  IN SubSeq(r, at + 1, stop - 1)

IsMarker(piece) == piece \in {Fence, BlankLine}

\* the block without its code-fence markers and blank lines
Stripped(block) == SelectSeq(block, LAMBDA piece : ~IsMarker(piece))

\* C37, as stated: the block of clause i runs from its label
\* CLAUSE_i_ANALYSIS: to the next label or the end of the text, and the
\* code-fence markers around it are stripped: a block that holds valid JSON,
\* also when it is wrapped in code fences or has a blank line in it, is
\* returned as parsed and is not replaced by the fallback entry.
C37_FencedBlockParsed ==
  parse_results # {} =>
    \A i \in 1..num_clauses :
       (/\ Find(response_text, {Label(i)}, 1) # 0
        /\ Len(Stripped(LabelledBlock(response_text, i))) = 1
        /\ IsJson(Stripped(LabelledBlock(response_text, i))[1]))
          => Entry(parse_results, i)
               = ParsedEntry(i, Stripped(LabelledBlock(response_text, i))[1])

\* C39, as stated: the day window of RateLimiter is a rolling 24-hour
\* window: whatever step is taken, a request record that is less than 24
\* hours old after the step is still in daily_requests, so that the window
\* counts every request of the last 24 hours against max_requests_per_day.
C39_DayWindowRolling ==
  [][\A k \in 1..Len(daily_requests) :
        now' - daily_requests[k] < DayLength
           => \E j \in 1..Len(daily_requests') :
                 daily_requests'[j] = daily_requests[k]]_vars

\* C32, as stated: every write to the shared state of a limiter is made
\* under the limiter's lock, so with concurrent callers no update is lost:
\* each rate-limited call that counts itself leaves rate_limited_count one
\* higher than it was, and the counter equals the number of such calls.
C32_NoLostUpdate ==
  [][\A t \in Threads :
        RLCountWrite(t) => rate_limited_count' = rate_limited_count + 1]_vars

\* a call of optimized_generate_content ends rate-limited in this step:
\* _retry_with_backoff gives up on a rate-limit-shaped error and raises
\* "Persistent rate limiting after ..."
EndsRateLimited(j) ==
  RetryHandle(j) /\ qt'.pc = "idle" /\ RetryRateLimitText(qt.err)

\* C40, as stated: when a request made through optimized_generate_content
\* ends in a rate-limit failure, log_request is called with rate_limited
\* true and rate_limit_hits grows by one, so that rate_limit_hits equals the
\* number of requests that ended rate-limited.
C40_RateLimitHitsCounted ==
  [][\A j \in JitterTenths :
        EndsRateLimited(j)
           => usage'.rate_limit_hits = usage.rate_limit_hits + 1]_vars

\* C35, as stated: any non-empty upstream response is a success: when the
\* upstream call returns a text that is not empty, optimized_generate_content
\* returns it and does not raise.
C35_NonEmptyIsSuccess ==
  [][\A o \in GenOutcomes :
        (RetryAttempt(o) /\ qt'.calls = qt.calls + 1 /\ Answered(o))
           => qt'.res = "ok"]_vars

\* the threads whose upstream call is in progress
InUpstream == {t \in Threads : th[t].pc = "q_func"}

\* C31: upstream calls made through the shared RateLimitedQueue never
\* overlap: under any interleaving of the threads at most one upstream call
\* is in progress at a time, and it is the call of the thread that holds the
\* queue's lock, so that requests are submitted strictly one after another.
C31_NoOverlap ==
  /\ Cardinality(InUpstream) <= 1
  /\ \A t \in InUpstream : lock = t

\* C31, witness: the call of one thread is in progress after an earlier call
\* has ended, and the other thread waits for the lock
C31_Witness ==
  \E t, u \in Threads :
     /\ th[t].pc = "q_func"
     /\ th[u].pc = "q_lock"
     /\ Len(request_times) >= 2

=========================================================================
